---------------------------- MODULE Spec2Model ----------------------------
(***************************************************************************)
(* The rule engine of src/shared/ruleenginelib: the value and operator     *)
(* model, the condition-tree evaluator, the JSON decoder seen as a table   *)
(* from documents to Rule Blocks, and the mutex-guarded rule store with    *)
(* its callers' threads.                                                   *)
(***************************************************************************)
EXTENDS Integers, Sequences, FiniteSets, TLC

(***************************************************************************)
(* Bounds of the model.                                                    *)
(***************************************************************************)
\* number of caller goroutines
NumThreads == 2
\* number of engine calls started in one run, over all threads
MaxCalls == 3

Threads == 1..NumThreads
\* engine 1 always exists; engine 2 only in the two-engine specification
EngineIds == {1, 2}

(***************************************************************************)
(* Values: Go's interface{} holding an int, a float64, a string, a bool,   *)
(* nil or a []interface{}.  Every value is a record of the same shape so   *)
(* that any two are comparable: t is the dynamic type, n twice the numeric *)
(* value (so that x.5 floats exist), s the string, l the list elements.    *)
(***************************************************************************)
IntV(i) == [t |-> "int", n |-> 2 * i, s |-> "", l |-> <<>>]
FloatV(twice) == [t |-> "float64", n |-> twice, s |-> "", l |-> <<>>]
StrV(str) == [t |-> "string", n |-> 0, s |-> str, l |-> <<>>]
BoolV(b) == [t |-> "bool", n |-> IF b THEN 1 ELSE 0, s |-> "", l |-> <<>>]
NilV == [t |-> "nil", n |-> 0, s |-> "", l |-> <<>>]
ListV(elems) == [t |-> "[]interface{}", n |-> 0, s |-> "", l |-> elems]

\* result of a call that returns (bool, error); err = "none" is a nil error
Ok(b) == [ok |-> b, err |-> "none"]
Err(kind) == [ok |-> FALSE, err |-> kind]

\* assertIsNumber: (float64, error); fails unless v is an int or a float64
assertIsNumber(v) ==
    IF v.t = "int" \/ v.t = "float64"
    THEN [f |-> v.n, err |-> "none"]
    ELSE [f |-> 0, err |-> "type"]

\* Go's == on two interface{} values: false when the dynamic types differ,
\* a run-time panic when both hold the same uncomparable type (a slice)
GoEq(a, b) ==
    IF a.t # b.t THEN Ok(FALSE)
    ELSE IF a.t = "[]interface{}" THEN Err("uncomparable")
    ELSE Ok(a = b)

GoNeq(a, b) ==
    LET r == GoEq(a, b) IN IF r.err = "none" THEN Ok(~r.ok) ELSE r

\* the numeric loop as a bug would have it: an element that is not a number
\* ends the search
NumericIn_StopsAtNonNumber(factNum, valSlice) ==
    \E i \in 1..Len(valSlice) :
        /\ \A k \in 1..i : assertIsNumber(valSlice[k]).err = "none"
        /\ assertIsNumber(valSlice[i]).f = factNum

\* the loop of anyof/noneof over a list operand when the fact is numeric:
\* TRUE iff some element is numeric and equals the fact
NumericIn(factNum, valSlice) ==
    \E i \in 1..Len(valSlice) :
        /\ assertIsNumber(valSlice[i]).err = "none"
        /\ assertIsNumber(valSlice[i]).f = factNum

\* the loop of anyof/noneof when the fact is not numeric: identifier == val
\* for each element in order, returning at the first equal one; found is
\* the value returned on a hit, notfound after the loop
RECURSIVE ExactIn(_, _, _, _, _)
\* the exact loop as a bug would have it: return false, nil after the loop,
\* in noneof as in anyof
ExactIn_FalseAfterLoop(identifier, valSlice, i, found, notfound) ==
    IF i > Len(valSlice) THEN Ok(FALSE)
    ELSE LET r == GoEq(identifier, valSlice[i]) IN
         IF r.err # "none" THEN r
         ELSE IF r.ok THEN Ok(found)
         ELSE ExactIn(identifier, valSlice, i + 1, found, notfound)

ExactIn(identifier, valSlice, i, found, notfound) ==
    IF i > Len(valSlice) THEN Ok(notfound)
    ELSE LET r == GoEq(identifier, valSlice[i]) IN
         IF r.err # "none" THEN r
         ELSE IF r.ok THEN Ok(found)
         ELSE ExactIn(identifier, valSlice, i + 1, found, notfound)

\* the scalar-operand branch shared by eq / anyof (default case)
EqScalar(identifier, value) ==
    IF assertIsNumber(identifier).err = "none"
    THEN IF assertIsNumber(value).err # "none" THEN Err("type")
         ELSE Ok(assertIsNumber(identifier).f = assertIsNumber(value).f)
    ELSE GoEq(identifier, value)

\* the scalar-operand branch shared by neq / noneof (default case)
NeqScalar(identifier, value) ==
    IF assertIsNumber(identifier).err = "none"
    THEN IF assertIsNumber(value).err # "none" THEN Err("type")
         ELSE Ok(assertIsNumber(identifier).f # assertIsNumber(value).f)
    ELSE GoNeq(identifier, value)

\* the ordering operators as a bug would have them: a side that is not
\* numeric makes the comparison false
Ordering_FalseOnMismatch(identifier, value, operator) ==
    IF assertIsNumber(identifier).err # "none" THEN Ok(FALSE)
    ELSE IF assertIsNumber(value).err # "none" THEN Ok(FALSE)
    ELSE LET f == assertIsNumber(identifier).f
             v == assertIsNumber(value).f
         IN CASE operator \in {"<", "lt"} -> Ok(f < v)
              [] operator \in {">", "gt"} -> Ok(f > v)
              [] operator \in {">=", "gte"} -> Ok(f >= v)
              [] OTHER -> Ok(f <= v)

\* the four ordering operators: both sides must be numeric
Ordering(identifier, value, operator) ==
    IF assertIsNumber(identifier).err # "none" THEN Err("type")
    ELSE IF assertIsNumber(value).err # "none" THEN Err("type")
    ELSE LET f == assertIsNumber(identifier).f
             v == assertIsNumber(value).f
         IN CASE operator \in {"<", "lt"} -> Ok(f < v)
              [] operator \in {">", "gt"} -> Ok(f > v)
              [] operator \in {">=", "gte"} -> Ok(f >= v)
              [] OTHER -> Ok(f <= v)

\* EvaluateOperator as a bug would have it: a name the switch does not know
\* gives false and no error
EvaluateOperator_DefaultFalse(identifier, value, operator) ==
    CASE operator = "anyof" ->
            IF value.t = "[]interface{}"
            THEN IF assertIsNumber(identifier).err = "none"
                 THEN Ok(NumericIn(assertIsNumber(identifier).f, value.l))
                 ELSE ExactIn(identifier, value.l, 1, TRUE, FALSE)
            ELSE EqScalar(identifier, value)
      [] operator = "noneof" ->
            IF value.t = "[]interface{}"
            THEN IF assertIsNumber(identifier).err = "none"
                 THEN Ok(~NumericIn(assertIsNumber(identifier).f, value.l))
                 ELSE ExactIn(identifier, value.l, 1, FALSE, TRUE)
            ELSE NeqScalar(identifier, value)
      [] operator \in {"=", "eq"} -> EqScalar(identifier, value)
      [] operator \in {"!=", "neq"} -> NeqScalar(identifier, value)
      [] operator \in {"<", "lt", ">", "gt", ">=", "gte", "<=", "lte"} ->
            Ordering(identifier, value, operator)
      [] OTHER -> Ok(FALSE)

EvaluateOperator(identifier, value, operator) ==
    CASE operator = "anyof" ->
            IF value.t = "[]interface{}"
            THEN IF assertIsNumber(identifier).err = "none"
                 THEN Ok(NumericIn(assertIsNumber(identifier).f, value.l))
                 ELSE ExactIn(identifier, value.l, 1, TRUE, FALSE)
            ELSE EqScalar(identifier, value)
      [] operator = "noneof" ->
            IF value.t = "[]interface{}"
            THEN IF assertIsNumber(identifier).err = "none"
                 THEN Ok(~NumericIn(assertIsNumber(identifier).f, value.l))
                 ELSE ExactIn(identifier, value.l, 1, FALSE, TRUE)
            ELSE NeqScalar(identifier, value)
      [] operator \in {"=", "eq"} -> EqScalar(identifier, value)
      [] operator \in {"!=", "neq"} -> NeqScalar(identifier, value)
      [] operator \in {"<", "lt", ">", "gt", ">=", "gte", "<=", "lte"} ->
            Ordering(identifier, value, operator)
      [] OTHER -> Err("unknownop")


(***************************************************************************)
(* Condition-tree evaluator, as pure operators.  opts is the value of the  *)
(* package variable `options` when GetFactValue reads it: <<>> is a nil    *)
(* pointer, <<b>> points to Options{AllowUndefinedVars: b}.                *)
(***************************************************************************)
\* data[fact] on a Go map: nil when the key is absent
Lookup(data, fact) == IF fact \in DOMAIN data THEN data[fact] ELSE NilV

\* GetFactValue as a bug would have it: a truthiness test, which takes the
\* zero values false, 0 and "" as undefined too
GetFactValue_ZeroIsUndefined(condition, data, opts) ==
    LET value == Lookup(data, condition.Fact)
        zero == value \in {NilV, BoolV(FALSE), IntV(0), FloatV(0), StrV("")}
    IN IF zero
       THEN IF opts = <<>> THEN [v |-> NilV, err |-> "nilptr"]
            ELSE IF opts[1] THEN [v |-> BoolV(FALSE), err |-> "none"]
            ELSE [v |-> NilV, err |-> "undef"]
       ELSE [v |-> value, err |-> "none"]

GetFactValue(condition, data, opts) ==
    LET value == Lookup(data, condition.Fact) IN
    IF value = NilV
    THEN IF opts = <<>> THEN [v |-> NilV, err |-> "nilptr"]
         ELSE IF opts[1] THEN [v |-> BoolV(FALSE), err |-> "none"]
         ELSE [v |-> NilV, err |-> "undef"]
    ELSE [v |-> value, err |-> "none"]

\* EvaluateConditional as a bug would have it: the length of Value is not
\* looked at and the empty operand goes to EvaluateOperator
EvaluateConditional_NoLenCheck(conditional, identifier) ==
    EvaluateOperator(identifier, ListV(conditional.Value), conditional.Operator)

\* EvaluateConditional as a bug would have it: no operand, or an error of
\* EvaluateOperator, gives false instead of a panic
EvaluateConditional_Swallow(conditional, identifier) ==
    IF Len(conditional.Value) = 0 THEN Ok(FALSE)
    ELSE LET r == EvaluateOperator(identifier, ListV(conditional.Value),
                                   conditional.Operator)
         IN IF r.err # "none" THEN Ok(FALSE) ELSE r

\* a panic is an err other than "none"
EvaluateConditional(conditional, identifier) ==
    IF Len(conditional.Value) = 0 THEN Err("noval")
    ELSE EvaluateOperator(identifier, ListV(conditional.Value), conditional.Operator)

\* GetFactValue then EvaluateConditional, as both loops do for one conditional
CondResult(condition, data, opts) ==
    LET g == GetFactValue(condition, data, opts) IN
    IF g.err # "none" THEN Err(g.err) ELSE EvaluateConditional(condition, g.v)

RECURSIVE AllFrom(_, _, _, _)
AllFrom(conditions, i, data, opts) ==
    IF i > Len(conditions) THEN Ok(TRUE)
    ELSE LET r == CondResult(conditions[i], data, opts) IN
         IF r.err # "none" THEN r
         ELSE IF ~r.ok THEN Ok(FALSE)
         ELSE AllFrom(conditions, i + 1, data, opts)

EvaluateAllCondition(conditions, data, opts) == AllFrom(conditions, 1, data, opts)

RECURSIVE AnyFrom(_, _, _, _)
AnyFrom(conditions, i, data, opts) ==
    IF i > Len(conditions) THEN Ok(FALSE)
    ELSE LET r == CondResult(conditions[i], data, opts) IN
         IF r.err # "none" THEN r
         ELSE IF r.ok THEN Ok(TRUE)
         ELSE AnyFrom(conditions, i + 1, data, opts)

EvaluateAnyCondition(conditions, data, opts) == AnyFrom(conditions, 1, data, opts)

EvaluateCondition(condition, kind, data, opts) ==
    CASE kind = "all" -> EvaluateAllCondition(condition, data, opts)
      [] kind = "any" -> EvaluateAnyCondition(condition, data, opts)
      [] OTHER -> Err("badkind")

\* EvaluateRule with `options` holding opts throughout the call
EvaluateRule(rule, data, opts) ==
    LET any == IF Len(rule.Any) = 0 THEN Ok(TRUE)
               ELSE EvaluateCondition(rule.Any, "any", data, opts)
        all == IF Len(rule.All) = 0 THEN Ok(TRUE)
               ELSE EvaluateCondition(rule.All, "all", data, opts)
    IN IF any.err # "none" THEN any
       ELSE IF all.err # "none" THEN all
       ELSE Ok(any.ok /\ all.ok)

(***************************************************************************)
(* Rule data model and the documents the callers submit.                   *)
(***************************************************************************)
\* a direct call of EvaluateOperator: its arguments and, once it has
\* returned, its result.  The document "OP" and the fact bag "X" carry the
\* same operator, operand and identifier through the engine.
VARIABLE opcall

AstConditional(fact, operator, value) ==
    [Fact |-> fact, Operator |-> operator, Value |-> value]

\* RuleEntry: Condition.Any, Condition.All and the action types
RuleEntry(any, all, actions) == [Any |-> any, All |-> all, Actions |-> actions]

RuleBlock(uuid, name, state, entries) ==
    [UUID |-> uuid, Name |-> name, State |-> state, RuleEntries |-> entries]

UUIDs == {"a", "b"}

BlockA1 ==
    RuleBlock("a", "neptune", TRUE,
        << RuleEntry(<<>>, << AstConditional("planet", "anyof", << StrV("Neptune") >>) >>,
                     << "alert" >>) >>)

BlockA2 ==
    RuleBlock("a", "age", FALSE,
        << RuleEntry(<< AstConditional("age", "anyof", << FloatV(60) >>) >>, <<>>,
                     << "greet" >>),
           RuleEntry(<<>>, << AstConditional("planet", "lt", << FloatV(2) >>) >>,
                     << "drop" >>) >>)

BlockB1 ==
    RuleBlock("b", "saturn", TRUE,
        << RuleEntry(<< AstConditional("planet", "anyof", << StrV("Saturn") >>) >>, <<>>,
                     << "alert" >>),
           RuleEntry(<< AstConditional("age", "anyof", << FloatV(60) >>),
                        AstConditional("planet", "frob", << StrV("x") >>) >>,
                     << AstConditional("planet", "anyof", <<>>) >>,
                     << "drop" >>) >>)

\* the rule of the end-to-end scenario: planet eq Neptune and colour eq
\* black, each operand decoded into the []interface{} of AstConditional.Value
BlockP ==
    RuleBlock("a", "neptune-black", TRUE,
        << RuleEntry(<<>>,
                     << AstConditional("planet", "eq", << StrV("Neptune") >>),
                        AstConditional("colour", "eq", << StrV("black") >>) >>,
                     << "alert" >>) >>)

\* a rule with an ordering operator: age lt "abc"
BlockT ==
    RuleBlock("a", "minor", TRUE,
        << RuleEntry(<<>>, << AstConditional("age", "lt", << StrV("abc") >>) >>,
                     << "drop" >>) >>)

\* a rule whose condition has an empty `any` and an empty `all` list
BlockE ==
    RuleBlock("b", "always", TRUE, << RuleEntry(<<>>, <<>>, << "alert" >>) >>)

\* a rule of two entries: planet anyof [Saturn], then colour anyof [black]
BlockM ==
    RuleBlock("a", "saturn-or-black", TRUE,
        << RuleEntry(<<>>, << AstConditional("planet", "anyof", << StrV("Saturn") >>) >>,
                     << "first" >>),
           RuleEntry(<<>>, << AstConditional("colour", "anyof", << StrV("black") >>) >>,
                     << "second" >>) >>)

\* a rule that is switched off ("state": false): colour anyof [black]
BlockD ==
    RuleBlock("b", "black-off", FALSE,
        << RuleEntry(<<>>, << AstConditional("colour", "anyof", << StrV("black") >>) >>,
                     << "disabled" >>) >>)

\* documents that decode to a Rule Block
ValidDocs == {"A1", "A2", "B1"}
\* "bad" is not JSON; "null" is JSON that decodes to a nil *RuleBlock
Docs == ValidDocs \cup {"bad", "null"}
\* DeleteRule reads only the uuid of its document: one document per uuid
DeleteDocs == {"A1", "B1", "bad", "null"}

\* the document "OP": one rule whose `all` list is one conditional on fact x,
\* with the operator and the operand of opcall
BlockOP ==
    RuleBlock("a", "op", TRUE,
        << RuleEntry(<<>>, << AstConditional("x", opcall.operator, opcall.value.l) >>,
                     << "alert" >>) >>)

\* json.Unmarshal of the "value" member into []interface{}: an array gives
\* its elements and null a nil slice; any other JSON value is an error
ValueDecodes(v) == v.t \in {"[]interface{}", "nil"}

\* ParseJSON as a bug would have it: the error of json.Unmarshal is dropped
\* and the block decoded so far is returned
ParseJSON_IgnoreError(j) ==
    CASE j = "A1" -> [block |-> << BlockA1 >>, err |-> "none"]
      [] j = "A2" -> [block |-> << BlockA2 >>, err |-> "none"]
      [] j = "B1" -> [block |-> << BlockB1 >>, err |-> "none"]
      [] j = "null" -> [block |-> <<>>, err |-> "none"]
      [] j = "OP" -> [block |-> << BlockOP >>, err |-> "none"]
      [] j = "P" -> [block |-> << BlockP >>, err |-> "none"]
      [] j = "T" -> [block |-> << BlockT >>, err |-> "none"]
      [] j = "E" -> [block |-> << BlockE >>, err |-> "none"]
      [] j = "M" -> [block |-> << BlockM >>, err |-> "none"]
      [] j = "D" -> [block |-> << BlockD >>, err |-> "none"]
      [] OTHER -> [block |-> << RuleBlock("a", "", FALSE, <<>>) >>, err |-> "none"]

\* ParseJSON: json.Unmarshal into a *RuleBlock, and a panic when it fails;
\* block is <<>> for a nil pointer
ParseJSON(j) ==
    CASE j = "A1" -> [block |-> << BlockA1 >>, err |-> "none"]
      [] j = "A2" -> [block |-> << BlockA2 >>, err |-> "none"]
      [] j = "B1" -> [block |-> << BlockB1 >>, err |-> "none"]
      [] j = "null" -> [block |-> <<>>, err |-> "none"]
      [] j = "OP" /\ ValueDecodes(opcall.value) -> [block |-> << BlockOP >>, err |-> "none"]
      [] j = "P" -> [block |-> << BlockP >>, err |-> "none"]
      [] j = "T" -> [block |-> << BlockT >>, err |-> "none"]
      [] j = "E" -> [block |-> << BlockE >>, err |-> "none"]
      [] j = "M" -> [block |-> << BlockM >>, err |-> "none"]
      [] j = "D" -> [block |-> << BlockD >>, err |-> "none"]
      [] OTHER -> [block |-> <<>>, err |-> "json"]

\* the fact bags the callers submit, by name
DataNames == {"N", "S", "NA"}

Data(name) ==
    CASE name = "N" -> [f \in {"planet"} |-> StrV("Neptune")]
      [] name = "S" -> [f \in {"planet"} |-> StrV("Saturn")]
      [] name = "X" -> [f \in {"x"} |-> opcall.identifier]
      [] name = "0" -> [f \in {} |-> NilV]
      [] name = "NB" -> [f \in {"planet", "colour"} |->
                           IF f = "planet" THEN StrV("Neptune") ELSE StrV("black")]
      [] name = "SB" -> [f \in {"planet", "colour"} |->
                           IF f = "planet" THEN StrV("Saturn") ELSE StrV("black")]
      [] name = "A5" -> [f \in {"age"} |-> IntV(5)]
      [] OTHER -> [f \in {"planet", "age"} |->
                      IF f = "planet" THEN StrV("Neptune") ELSE IntV(30)]

(***************************************************************************)
(* The engines and their callers.                                          *)
(***************************************************************************)
VARIABLES
    engines,             \* the engines that were constructed
    AllowUndefinedVars,  \* per engine: EvaluatorOptions.AllowUndefinedVars
    FirstMatch,          \* per engine: EvaluatorOptions.FirstMatch
    RuleMap,             \* per engine: [isNil, at]; at[u] is <<>> or <<block>>
    Mutex,               \* per engine: 0 when unlocked, else the thread holding it
    options,             \* the package variable `options`: <<>> or <<allow>>
    calls,               \* calls started so far
    pc,                  \* per thread: where it is in its call
    eng,                 \* per thread: the engine of its call
    op,                  \* per thread: the method called
    rule,                \* per thread: the document passed to AddRule / DeleteRule
    data,                \* per thread: the name of the fact bag passed to EvaluateRules
    ruleBlock,           \* per thread: ParseJSON's result, or the block `range` copied
    visited,             \* per thread: keys the range loop has produced
    ei,                  \* per thread: index into ruleBlock.RuleEntries
    cursor,              \* per thread: position inside EvaluateRule
    ret,                 \* per thread: how its last call ended
    faulted,             \* per thread: a conditional of this call raised a fault
    snap                 \* per thread: the rule map when it acquired the mutex

\* the UserService of the same process (fields of the struct, and the frame
\* of each goroutine's call on it)
VARIABLES
    users,               \* UserService.users: the stored users, one per id
    nextID,              \* UserService.nextID
    mutex,               \* UserService.mutex: 0 when free, else the holder
    ucall                \* per thread: its call on the UserService

vars == << engines, AllowUndefinedVars, FirstMatch, RuleMap, Mutex, options, calls,
           pc, eng, op, rule, data, ruleBlock, visited, ei, cursor, ret, faulted, snap,
           opcall, users, nextID, mutex, ucall >>

\* the UserService, which no method of RuleEngine touches
userService == << users, nextID, mutex, ucall >>

\* what no method of RuleEngine writes: the engines and their options, the
\* frame of a direct EvaluateOperator call, and the UserService
shared == << engines, AllowUndefinedVars, FirstMatch, opcall, userService >>

\* no call on the UserService in progress
NoUserCall == [pc |-> "idle", op |-> "", id |-> 0, Username |-> <<>>, Email |-> <<>>,
               err |-> ""]

\* NewUserService(): an empty map and nextID 1; no goroutine is calling
NewUserService ==
    /\ users = {}
    /\ nextID = 1
    /\ mutex = 0
    /\ ucall = [t \in Threads |-> NoUserCall]

defaultOptions == [AllowUndefinedVars |-> FALSE, FirstMatch |-> TRUE]

\* the arguments NewRuleEngineInstance is called with: <<>> is nil
OptionArgs ==
    {<<>>, << [AllowUndefinedVars |-> TRUE, FirstMatch |-> TRUE] >>}

NilMap == [isNil |-> TRUE, at |-> [u \in UUIDs |-> <<>>]]
EmptyMap == [isNil |-> FALSE, at |-> [u \in UUIDs |-> <<>>]]
Keys(rm) == {u \in UUIDs : rm.at[u] # <<>>}

\* the RuleEngine returned: the options copied, RuleMap and Mutex zero values
NewRuleEngineInstance(optionsArg) ==
    LET opts == IF optionsArg = <<>> THEN defaultOptions ELSE optionsArg[1] IN
    [AllowUndefinedVars |-> opts.AllowUndefinedVars,
     FirstMatch |-> opts.FirstMatch,
     RuleMap |-> NilMap,
     Mutex |-> 0]

\* how a call ended: kind is none / ok / match / nomatch / panic
NoRet == [kind |-> "none", id |-> "", entry |-> <<>>, fault |-> "none"]
Returned == [kind |-> "ok", id |-> "", entry |-> <<>>, fault |-> "none"]
Match(id, entry) == [kind |-> "match", id |-> id, entry |-> << entry >>, fault |-> "none"]
NoMatch == [kind |-> "nomatch", id |-> "", entry |-> <<>>, fault |-> "none"]
Panic(kind) == [kind |-> "panic", id |-> "", entry |-> <<>>, fault |-> kind]
\* the bool EvaluateStruct returns
Bool(b) == [kind |-> IF b THEN "true" ELSE "false", id |-> "", entry |-> <<>>,
            fault |-> "none"]

\* no direct call of EvaluateOperator is made
NoOpCall == [identifier |-> NilV, value |-> NilV, operator |-> "", result |-> <<>>]

NoCursor == [phase |-> "none", ci |-> 0, any |-> FALSE, all |-> FALSE]

\* EvaluateRule as a bug would have it: a true `any` side returns at once
AfterAny_TrueReturns(entry, anyres) ==
    IF Len(entry.All) = 0 \/ (anyres /\ Len(entry.Any) > 0)
    THEN [phase |-> "done", ci |-> 0, any |-> anyres, all |-> TRUE]
    ELSE [phase |-> "all", ci |-> 1, any |-> anyres, all |-> FALSE]

\* EvaluateRule as a bug would have it: a false `any` side returns at once
AfterAny_FalseReturns(entry, anyres) ==
    IF Len(entry.All) = 0 \/ ~anyres
    THEN [phase |-> "done", ci |-> 0, any |-> anyres, all |-> TRUE]
    ELSE [phase |-> "all", ci |-> 1, any |-> anyres, all |-> FALSE]

\* EvaluateRule once the `any` side is known: the `all` list, if it is not empty
AfterAny(entry, anyres) ==
    IF Len(entry.All) = 0
    THEN [phase |-> "done", ci |-> 0, any |-> anyres, all |-> TRUE]
    ELSE [phase |-> "all", ci |-> 1, any |-> anyres, all |-> FALSE]

\* EvaluateRule as a bug would have it: an empty `any` list leaves any = false
StartRule_EmptyAnyFails(entry) ==
    IF Len(entry.Any) = 0 THEN AfterAny(entry, FALSE)
    ELSE [phase |-> "any", ci |-> 1, any |-> FALSE, all |-> FALSE]

\* EvaluateRule's first branch: the `any` list, if it is not empty
StartRule(entry) ==
    IF Len(entry.Any) = 0 THEN AfterAny(entry, TRUE)
    ELSE [phase |-> "any", ci |-> 1, any |-> FALSE, all |-> FALSE]

InitThreads ==
    /\ options = <<>>
    /\ calls = 0
    /\ pc = [t \in Threads |-> "idle"]
    /\ eng = [t \in Threads |-> 1]
    /\ op = [t \in Threads |-> "none"]
    /\ rule = [t \in Threads |-> ""]
    /\ data = [t \in Threads |-> ""]
    /\ ruleBlock = [t \in Threads |-> <<>>]
    /\ visited = [t \in Threads |-> {}]
    /\ ei = [t \in Threads |-> 0]
    /\ cursor = [t \in Threads |-> NoCursor]
    /\ ret = [t \in Threads |-> NoRet]
    /\ faulted = [t \in Threads |-> FALSE]
    /\ snap = [t \in Threads |-> NilMap]

\* one engine, built with any options
Init ==
    /\ engines = {1}
    /\ \E o \in OptionArgs :
          LET re == NewRuleEngineInstance(o) IN
          /\ AllowUndefinedVars = [e \in EngineIds |-> re.AllowUndefinedVars]
          /\ FirstMatch = [e \in EngineIds |-> re.FirstMatch]
          /\ RuleMap = [e \in EngineIds |-> re.RuleMap]
          /\ Mutex = [e \in EngineIds |-> re.Mutex]
    /\ InitThreads
    /\ opcall = NoOpCall
    /\ NewUserService

\* the embedding application gives the exported RuleMap field a map, before
\* it makes any call (NewRuleEngineInstance leaves the field nil)
SetRuleMap(e) ==
    /\ e \in engines
    /\ calls = 0
    /\ RuleMap[e].isNil
    /\ RuleMap' = [RuleMap EXCEPT ![e] = EmptyMap]
    /\ UNCHANGED << shared, Mutex, options, calls, pc, eng, op, rule, data, ruleBlock,
                    visited, ei, cursor, ret, faulted, snap >>

\* a thread calls AddRule or DeleteRule, whose first statement is ParseJSON:
\* it touches nothing shared, the mutex is not held and no defer is
\* registered, so a decode panic leaves the call at once
CallParse(t, e, method, doc) ==
    /\ pc[t] = "idle"
    /\ calls < MaxCalls
    /\ e \in engines
    /\ calls' = calls + 1
    /\ eng' = [eng EXCEPT ![t] = e]
    /\ op' = [op EXCEPT ![t] = method]
    /\ rule' = [rule EXCEPT ![t] = doc]
    /\ LET r == ParseJSON(doc) IN
       IF r.err # "none"
       THEN /\ ret' = [ret EXCEPT ![t] = Panic(r.err)]
            /\ pc' = [pc EXCEPT ![t] = "exit"]
            /\ UNCHANGED ruleBlock
       ELSE /\ ruleBlock' = [ruleBlock EXCEPT ![t] = r.block]
            /\ pc' = [pc EXCEPT ![t] = "lock"]
            /\ UNCHANGED ret
    /\ UNCHANGED << shared, RuleMap, Mutex, options, data, visited, ei, cursor,
                    faulted, snap >>

CallAddRule(t, e, doc) == CallParse(t, e, "AddRule", doc)

CallDeleteRule(t, e, doc) == CallParse(t, e, "DeleteRule", doc)

\* a thread calls EvaluateRules, whose first statement is the Lock
CallEvaluateRules(t, e, facts) ==
    /\ pc[t] = "idle"
    /\ calls < MaxCalls
    /\ e \in engines
    /\ calls' = calls + 1
    /\ eng' = [eng EXCEPT ![t] = e]
    /\ op' = [op EXCEPT ![t] = "EvaluateRules"]
    /\ data' = [data EXCEPT ![t] = facts]
    /\ pc' = [pc EXCEPT ![t] = "lock"]
    /\ UNCHANGED << shared, RuleMap, Mutex, options, rule, ruleBlock, visited, ei,
                    cursor, ret, faulted, snap >>

\* Lock as a bug would have it: it does not wait for the mutex to be free
Lock_NoWait(t) ==
    /\ pc[t] = "lock"
    /\ Mutex' = [Mutex EXCEPT ![eng[t]] = t]
    /\ snap' = [snap EXCEPT ![t] = RuleMap[eng[t]]]
    /\ pc' = [pc EXCEPT ![t] = CASE op[t] = "AddRule" -> "add"
                                  [] op[t] = "DeleteRule" -> "del"
                                  [] OTHER -> "range"]
    /\ UNCHANGED << shared, RuleMap, options, calls, eng, op, rule, data, ruleBlock,
                    visited, ei, cursor, ret, faulted >>

\* re.Mutex.Lock(); defer re.Mutex.Unlock()
Lock(t) ==
    /\ pc[t] = "lock"
    /\ Mutex[eng[t]] = 0
    /\ Mutex' = [Mutex EXCEPT ![eng[t]] = t]
    /\ snap' = [snap EXCEPT ![t] = RuleMap[eng[t]]]
    /\ pc' = [pc EXCEPT ![t] = CASE op[t] = "AddRule" -> "add"
                                  [] op[t] = "DeleteRule" -> "del"
                                  [] OTHER -> "range"]
    /\ UNCHANGED << shared, RuleMap, options, calls, eng, op, rule, data, ruleBlock,
                    visited, ei, cursor, ret, faulted >>

\* re.RuleMap[ruleBlock.UUID] = *ruleBlock; return re
AddBody(t) ==
    /\ pc[t] = "add"
    /\ IF ruleBlock[t] = <<>>
       THEN /\ ret' = [ret EXCEPT ![t] = Panic("nilptr")]
            /\ UNCHANGED RuleMap
       ELSE IF RuleMap[eng[t]].isNil
       THEN /\ ret' = [ret EXCEPT ![t] = Panic("nilmap")]
            /\ UNCHANGED RuleMap
       ELSE /\ RuleMap' = [RuleMap EXCEPT ![eng[t]].at[ruleBlock[t][1].UUID] = ruleBlock[t]]
            /\ ret' = [ret EXCEPT ![t] = Returned]
    /\ pc' = [pc EXCEPT ![t] = "unlock"]
    /\ UNCHANGED << shared, Mutex, options, calls, eng, op, rule, data, ruleBlock,
                    visited, ei, cursor, faulted, snap >>

\* DeleteRule as a bug would have it: the map is emptied
DeleteBody_ClearAll(t) ==
    /\ pc[t] = "del"
    /\ IF ruleBlock[t] = <<>>
       THEN /\ ret' = [ret EXCEPT ![t] = Panic("nilptr")]
            /\ UNCHANGED RuleMap
       ELSE /\ RuleMap' = [RuleMap EXCEPT ![eng[t]].at = [u \in UUIDs |-> <<>>]]
            /\ ret' = [ret EXCEPT ![t] = Returned]
    /\ pc' = [pc EXCEPT ![t] = "unlock"]
    /\ UNCHANGED << shared, Mutex, options, calls, eng, op, rule, data, ruleBlock,
                    visited, ei, cursor, faulted, snap >>

\* delete(re.RuleMap, ruleBlock.UUID): no-op on a nil map or an absent key
DeleteBody(t) ==
    /\ pc[t] = "del"
    /\ IF ruleBlock[t] = <<>>
       THEN /\ ret' = [ret EXCEPT ![t] = Panic("nilptr")]
            /\ UNCHANGED RuleMap
       ELSE /\ RuleMap' = [RuleMap EXCEPT ![eng[t]].at[ruleBlock[t][1].UUID] = <<>>]
            /\ ret' = [ret EXCEPT ![t] = Returned]
    /\ pc' = [pc EXCEPT ![t] = "unlock"]
    /\ UNCHANGED << shared, Mutex, options, calls, eng, op, rule, data, ruleBlock,
                    visited, ei, cursor, faulted, snap >>

\* the range loop as an evaluator that enforces the flag would have it: a block
\* whose State is false is passed over (`continue`)
RangeNext_SkipsDisabled(t, u) ==
    /\ pc[t] = "range"
    /\ u \in Keys(RuleMap[eng[t]]) \ visited[t]
    /\ visited' = [visited EXCEPT ![t] = @ \cup {u}]
    /\ ruleBlock' = [ruleBlock EXCEPT ![t] = RuleMap[eng[t]].at[u]]
    /\ ei' = [ei EXCEPT ![t] = 1]
    /\ pc' = [pc EXCEPT ![t] = IF RuleMap[eng[t]].at[u][1].State THEN "entries" ELSE "range"]
    /\ UNCHANGED << shared, RuleMap, Mutex, options, calls, eng, op, rule, data,
                    cursor, ret, faulted, snap >>

\* for _, ruleBlock := range re.RuleMap: the next key, in any order; the
\* loop variable is a copy of the stored block
RangeNext(t, u) ==
    /\ pc[t] = "range"
    /\ u \in Keys(RuleMap[eng[t]]) \ visited[t]
    /\ visited' = [visited EXCEPT ![t] = @ \cup {u}]
    /\ ruleBlock' = [ruleBlock EXCEPT ![t] = RuleMap[eng[t]].at[u]]
    /\ ei' = [ei EXCEPT ![t] = 1]
    /\ pc' = [pc EXCEPT ![t] = "entries"]
    /\ UNCHANGED << shared, RuleMap, Mutex, options, calls, eng, op, rule, data,
                    cursor, ret, faulted, snap >>

\* EvaluateRules as a bug would have it: return false, "", nil inside the
\* loop over the blocks, after the first block without a match
RangeEnd_AfterFirstBlock(t) ==
    /\ pc[t] = "range"
    /\ Keys(RuleMap[eng[t]]) \ visited[t] = {} \/ visited[t] # {}
    /\ ret' = [ret EXCEPT ![t] = NoMatch]
    /\ pc' = [pc EXCEPT ![t] = "unlock"]
    /\ UNCHANGED << shared, RuleMap, Mutex, options, calls, eng, op, rule, data,
                    ruleBlock, visited, ei, cursor, faulted, snap >>

\* the range loop is over: return false, "", nil
RangeEnd(t) ==
    /\ pc[t] = "range"
    /\ Keys(RuleMap[eng[t]]) \ visited[t] = {}
    /\ ret' = [ret EXCEPT ![t] = NoMatch]
    /\ pc' = [pc EXCEPT ![t] = "unlock"]
    /\ UNCHANGED << shared, RuleMap, Mutex, options, calls, eng, op, rule, data,
                    ruleBlock, visited, ei, cursor, faulted, snap >>

\* the loop over the entries as a bug would have it: only the first entry of
\* a block is evaluated
NextEntry_FirstEntryOnly(t) ==
    /\ pc[t] = "entries"
    /\ pc' = [pc EXCEPT ![t] = IF ei[t] > 1 THEN "range" ELSE "rule"]
    /\ UNCHANGED << shared, RuleMap, Mutex, options, calls, eng, op, rule, data,
                    ruleBlock, visited, ei, cursor, ret, faulted, snap >>

\* for _, rule := range ruleBlock.RuleEntries: the loop ends, or the next
\* entry goes to EvaluateStruct
NextEntry(t) ==
    /\ pc[t] = "entries"
    /\ pc' = [pc EXCEPT ![t] = IF ei[t] > Len(ruleBlock[t][1].RuleEntries)
                               THEN "range" ELSE "rule"]
    /\ UNCHANGED << shared, RuleMap, Mutex, options, calls, eng, op, rule, data,
                    ruleBlock, visited, ei, cursor, ret, faulted, snap >>

\* a thread calls EvaluateStruct on an entry of its own: the method takes no
\* lock and goes straight to EvaluateRule
CallEvaluateStruct(t, e, entry, facts) ==
    /\ pc[t] = "idle"
    /\ calls < MaxCalls
    /\ e \in engines
    /\ calls' = calls + 1
    /\ eng' = [eng EXCEPT ![t] = e]
    /\ op' = [op EXCEPT ![t] = "EvaluateStruct"]
    /\ data' = [data EXCEPT ![t] = facts]
    /\ ruleBlock' = [ruleBlock EXCEPT ![t] = << RuleBlock("", "", FALSE, << entry >>) >>]
    /\ ei' = [ei EXCEPT ![t] = 1]
    /\ pc' = [pc EXCEPT ![t] = "rule"]
    /\ UNCHANGED << shared, RuleMap, Mutex, options, rule, visited, cursor, ret,
                    faulted, snap >>

\* EvaluateStruct -> EvaluateRule, first statements: the engine's options go
\* into the package variable (options = opts), then the `any` list is looked at
EvaluateRuleStart(t) ==
    /\ pc[t] = "rule"
    /\ LET c == StartRule(ruleBlock[t][1].RuleEntries[ei[t]]) IN
       /\ options' = << AllowUndefinedVars[eng[t]] >>
       /\ cursor' = [cursor EXCEPT ![t] = c]
       /\ pc' = [pc EXCEPT ![t] = IF c.phase = "done" THEN "ruled" ELSE "conds"]
    /\ UNCHANGED << shared, RuleMap, Mutex, calls, eng, op, rule, data, ruleBlock,
                    visited, ei, ret, faulted, snap >>

\* the conditional under the cursor
CurrentConditional(t) ==
    LET entry == ruleBlock[t][1].RuleEntries[ei[t]] IN
    IF cursor[t].phase = "any" THEN entry.Any[cursor[t].ci] ELSE entry.All[cursor[t].ci]

\* what the claim calls a fault of a conditional, read off the operands:
\* a missing fact that is not allowed, no operand, or an operator error
RaisesFault(condition, facts, opts) ==
    LET value == Lookup(facts, condition.Fact)
        identifier == IF value = NilV THEN BoolV(FALSE) ELSE value
    IN \/ value = NilV /\ (opts = <<>> \/ ~opts[1])
       \/ Len(condition.Value) = 0
       \/ EvaluateOperator(identifier, ListV(condition.Value), condition.Operator).err # "none"

\* the loops as a bug would have them: EvaluateAllCondition goes on after a
\* false conditional and returns what the last conditional gave
AdvanceCursor_LastDecides(entry, c, ok) ==
    IF c.phase = "any"
    THEN IF ok THEN AfterAny(entry, TRUE)
         ELSE IF c.ci < Len(entry.Any) THEN [c EXCEPT !.ci = c.ci + 1]
         ELSE AfterAny(entry, FALSE)
    ELSE IF c.ci < Len(entry.All) THEN [c EXCEPT !.ci = c.ci + 1]
         ELSE [c EXCEPT !.phase = "done", !.ci = 0, !.all = ok]

\* where the loops of EvaluateAnyCondition / EvaluateAllCondition go after a
\* conditional evaluated to ok
AdvanceCursor(entry, c, ok) ==
    IF c.phase = "any"
    THEN IF ok THEN AfterAny(entry, TRUE)
         ELSE IF c.ci < Len(entry.Any) THEN [c EXCEPT !.ci = c.ci + 1]
         ELSE AfterAny(entry, FALSE)
    ELSE IF ~ok THEN [c EXCEPT !.phase = "done", !.ci = 0, !.all = FALSE]
         ELSE IF c.ci < Len(entry.All) THEN [c EXCEPT !.ci = c.ci + 1]
         ELSE [c EXCEPT !.phase = "done", !.ci = 0, !.all = TRUE]

\* the loops as a bug would have them: every conditional of the list from the
\* cursor on is evaluated before the results are combined, so that a fault
\* further down the list aborts the call
EvalCond_Eager(t) ==
    /\ pc[t] = "conds"
    /\ LET entry == ruleBlock[t][1].RuleEntries[ei[t]]
           condition == CurrentConditional(t)
           L == IF cursor[t].phase = "any" THEN entry.Any ELSE entry.All
           ahead == {i \in cursor[t].ci..Len(L) : RaisesFault(L[i], Data(data[t]), options)}
           g == GetFactValue(condition, Data(data[t]), options)
           r == IF ahead # {} THEN Err("type")
                ELSE IF g.err # "none" THEN Err(g.err)
                ELSE EvaluateConditional(condition, g.v)
       IN /\ faulted' = [faulted EXCEPT ![t] =
                            @ \/ RaisesFault(condition, Data(data[t]), options)]
          /\ IF r.err # "none"
             THEN /\ ret' = [ret EXCEPT ![t] = Panic(r.err)]
                  /\ cursor' = [cursor EXCEPT ![t] = NoCursor]
                  /\ pc' = [pc EXCEPT ![t] = IF op[t] = "EvaluateStruct"
                                             THEN "exit" ELSE "unlock"]
             ELSE LET c == AdvanceCursor(entry, cursor[t], r.ok) IN
                  /\ cursor' = [cursor EXCEPT ![t] = c]
                  /\ pc' = [pc EXCEPT ![t] = IF c.phase = "done" THEN "ruled" ELSE "conds"]
                  /\ UNCHANGED ret
    /\ UNCHANGED << shared, RuleMap, Mutex, options, calls, eng, op, rule, data,
                    ruleBlock, visited, ei, snap >>

\* one iteration of EvaluateAnyCondition / EvaluateAllCondition: GetFactValue
\* (which reads the package variable) and EvaluateConditional
EvalCond(t) ==
    /\ pc[t] = "conds"
    /\ LET entry == ruleBlock[t][1].RuleEntries[ei[t]]
           condition == CurrentConditional(t)
           g == GetFactValue(condition, Data(data[t]), options)
           r == IF g.err # "none" THEN Err(g.err) ELSE EvaluateConditional(condition, g.v)
       IN /\ faulted' = [faulted EXCEPT ![t] =
                            @ \/ RaisesFault(condition, Data(data[t]), options)]
          /\ IF r.err # "none"
             THEN /\ ret' = [ret EXCEPT ![t] = Panic(r.err)]
                  /\ cursor' = [cursor EXCEPT ![t] = NoCursor]
                  /\ pc' = [pc EXCEPT ![t] = IF op[t] = "EvaluateStruct"
                                             THEN "exit" ELSE "unlock"]
             ELSE LET c == AdvanceCursor(entry, cursor[t], r.ok) IN
                  /\ cursor' = [cursor EXCEPT ![t] = c]
                  /\ pc' = [pc EXCEPT ![t] = IF c.phase = "done" THEN "ruled" ELSE "conds"]
                  /\ UNCHANGED ret
    /\ UNCHANGED << shared, RuleMap, Mutex, options, calls, eng, op, rule, data,
                    ruleBlock, visited, ei, snap >>

\* EvaluateRules as the option's name suggests it: the match is returned when
\* the engine's own FirstMatch is set, and the loop goes on otherwise
RuleReturn_EngineFlag(t) ==
    /\ pc[t] = "ruled"
    /\ IF op[t] = "EvaluateStruct"
       THEN /\ ret' = [ret EXCEPT ![t] = Bool(cursor[t].any /\ cursor[t].all)]
            /\ pc' = [pc EXCEPT ![t] = "exit"]
            /\ UNCHANGED ei
       ELSE IF cursor[t].any /\ cursor[t].all /\ FirstMatch[eng[t]]
       THEN /\ ret' = [ret EXCEPT ![t] =
                          Match(ruleBlock[t][1].UUID, ruleBlock[t][1].RuleEntries[ei[t]])]
            /\ pc' = [pc EXCEPT ![t] = "unlock"]
            /\ UNCHANGED ei
       ELSE /\ ei' = [ei EXCEPT ![t] = @ + 1]
            /\ pc' = [pc EXCEPT ![t] = "entries"]
            /\ UNCHANGED ret
    /\ cursor' = [cursor EXCEPT ![t] = NoCursor]
    /\ UNCHANGED << shared, RuleMap, Mutex, options, calls, eng, op, rule, data,
                    ruleBlock, visited, faulted, snap >>

\* EvaluateRules as a bug would have it: the matched block is taken out of
\* the map when it is returned
RuleReturn_RemovesMatched(t) ==
    /\ pc[t] = "ruled"
    /\ IF op[t] = "EvaluateStruct"
       THEN /\ ret' = [ret EXCEPT ![t] = Bool(cursor[t].any /\ cursor[t].all)]
            /\ pc' = [pc EXCEPT ![t] = "exit"]
            /\ UNCHANGED << ei, RuleMap >>
       ELSE IF cursor[t].any /\ cursor[t].all /\ defaultOptions.FirstMatch
       THEN /\ ret' = [ret EXCEPT ![t] =
                          Match(ruleBlock[t][1].UUID, ruleBlock[t][1].RuleEntries[ei[t]])]
            /\ RuleMap' = [RuleMap EXCEPT ![eng[t]].at[ruleBlock[t][1].UUID] = <<>>]
            /\ pc' = [pc EXCEPT ![t] = "unlock"]
            /\ UNCHANGED ei
       ELSE /\ ei' = [ei EXCEPT ![t] = @ + 1]
            /\ pc' = [pc EXCEPT ![t] = "entries"]
            /\ UNCHANGED << ret, RuleMap >>
    /\ cursor' = [cursor EXCEPT ![t] = NoCursor]
    /\ UNCHANGED << shared, Mutex, options, calls, eng, op, rule, data,
                    ruleBlock, visited, faulted, snap >>

\* EvaluateRule returned any && all.  EvaluateStruct returns it; in
\* EvaluateRules a true result returns the match when
\* defaultOptions.FirstMatch, and the loop goes on with the next entry otherwise
RuleReturn(t) ==
    /\ pc[t] = "ruled"
    /\ IF op[t] = "EvaluateStruct"
       THEN /\ ret' = [ret EXCEPT ![t] = Bool(cursor[t].any /\ cursor[t].all)]
            /\ pc' = [pc EXCEPT ![t] = "exit"]
            /\ UNCHANGED ei
       ELSE IF cursor[t].any /\ cursor[t].all /\ defaultOptions.FirstMatch
       THEN /\ ret' = [ret EXCEPT ![t] =
                          Match(ruleBlock[t][1].UUID, ruleBlock[t][1].RuleEntries[ei[t]])]
            /\ pc' = [pc EXCEPT ![t] = "unlock"]
            /\ UNCHANGED ei
       ELSE /\ ei' = [ei EXCEPT ![t] = @ + 1]
            /\ pc' = [pc EXCEPT ![t] = "entries"]
            /\ UNCHANGED ret
    /\ cursor' = [cursor EXCEPT ![t] = NoCursor]
    /\ UNCHANGED << shared, RuleMap, Mutex, options, calls, eng, op, rule, data,
                    ruleBlock, visited, faulted, snap >>

\* Unlock as a bug would have it: a plain call before the return statement
\* instead of a defer, so that a panic skips it
DeferredUnlock_NotOnPanic(t) ==
    /\ pc[t] = "unlock"
    /\ Mutex' = IF ret[t].kind = "panic" THEN Mutex ELSE [Mutex EXCEPT ![eng[t]] = 0]
    /\ pc' = [pc EXCEPT ![t] = "exit"]
    /\ ruleBlock' = [ruleBlock EXCEPT ![t] = <<>>]
    /\ visited' = [visited EXCEPT ![t] = {}]
    /\ ei' = [ei EXCEPT ![t] = 0]
    /\ snap' = [snap EXCEPT ![t] = NilMap]
    /\ UNCHANGED << shared, RuleMap, options, calls, eng, op, rule, data, cursor,
                    ret, faulted >>

\* the deferred re.Mutex.Unlock(): it runs on return and on panic, and there
\* is no recover, so a panic goes on to the caller
DeferredUnlock(t) ==
    /\ pc[t] = "unlock"
    /\ Mutex' = [Mutex EXCEPT ![eng[t]] = 0]
    /\ pc' = [pc EXCEPT ![t] = "exit"]
    /\ ruleBlock' = [ruleBlock EXCEPT ![t] = <<>>]
    /\ visited' = [visited EXCEPT ![t] = {}]
    /\ ei' = [ei EXCEPT ![t] = 0]
    /\ snap' = [snap EXCEPT ![t] = NilMap]
    /\ UNCHANGED << shared, RuleMap, options, calls, eng, op, rule, data, cursor,
                    ret, faulted >>

\* the call is over and the caller has its result (pc = "exit"); the caller
\* goes on, and the call's arguments and result are dropped
Resume(t) ==
    /\ pc[t] = "exit"
    /\ pc' = [pc EXCEPT ![t] = "idle"]
    /\ eng' = [eng EXCEPT ![t] = 1]
    /\ op' = [op EXCEPT ![t] = "none"]
    /\ rule' = [rule EXCEPT ![t] = ""]
    /\ data' = [data EXCEPT ![t] = ""]
    /\ ret' = [ret EXCEPT ![t] = NoRet]
    /\ faulted' = [faulted EXCEPT ![t] = FALSE]
    /\ ruleBlock' = [ruleBlock EXCEPT ![t] = <<>>]
    /\ ei' = [ei EXCEPT ![t] = 0]
    /\ UNCHANGED << shared, RuleMap, Mutex, options, calls, visited, cursor, snap >>

\* the steps of a call that is under way
Step(t) ==
    \/ Lock(t)
    \/ AddBody(t)
    \/ DeleteBody(t)
    \/ \E u \in UUIDs : RangeNext(t, u)
    \/ RangeEnd(t)
    \/ NextEntry(t)
    \/ EvaluateRuleStart(t)
    \/ EvalCond(t)
    \/ RuleReturn(t)
    \/ DeferredUnlock(t)
    \/ Resume(t)

\* the callers' calls, with documents and fact bags from the given sets, and
\* the steps of the calls under way
NextOn(addDocs, deleteDocs, bags) ==
    \/ \E e \in EngineIds : SetRuleMap(e)
    \/ \E t \in Threads, e \in EngineIds, doc \in addDocs : CallAddRule(t, e, doc)
    \/ \E t \in Threads, e \in EngineIds, doc \in deleteDocs : CallDeleteRule(t, e, doc)
    \/ \E t \in Threads, e \in EngineIds, facts \in bags : CallEvaluateRules(t, e, facts)
    \/ \E t \in Threads : Step(t)

Next == NextOn(Docs, DeleteDocs, DataNames)

Spec == Init /\ [][Next]_vars

\* the calls of the specification with fairness: AddRule of a block whose
\* entries panic on the fact bag, or of JSON null; DeleteRule; EvaluateRules
NextFair == NextOn({"A2", "null"}, {"A1"}, {"N"})

\* the scheduler runs every goroutine that can take a step, and a goroutine
\* waiting in Lock gets the mutex if it is free again and again (sync.Mutex
\* hands the mutex to a starving waiter)
FairSpec ==
    /\ Init
    /\ [][NextFair]_vars
    /\ \A t \in Threads : WF_vars(Step(t)) /\ SF_vars(Lock(t))

\* two engines in one process: engine 1 allows undefined facts, engine 2 is
\* built from the default options and does not
InitRace ==
    /\ engines = {1, 2}
    /\ LET re1 == NewRuleEngineInstance(<< [AllowUndefinedVars |-> TRUE, FirstMatch |-> TRUE] >>)
           re2 == NewRuleEngineInstance(<<>>)
           re(e) == IF e = 1 THEN re1 ELSE re2
       IN /\ AllowUndefinedVars = [e \in EngineIds |-> re(e).AllowUndefinedVars]
          /\ FirstMatch = [e \in EngineIds |-> re(e).FirstMatch]
          /\ RuleMap = [e \in EngineIds |-> re(e).RuleMap]
          /\ Mutex = [e \in EngineIds |-> re(e).Mutex]
    /\ InitThreads
    /\ opcall = NoOpCall
    /\ NewUserService

\* the entries the threads pass to EvaluateStruct
StructEntries ==
    UNION {{ParseJSON(doc).block[1].RuleEntries[i] :
                i \in 1..Len(ParseJSON(doc).block[1].RuleEntries)} : doc \in ValidDocs}

\* the steps of an EvaluateStruct call
StepStruct(t) ==
    \/ EvaluateRuleStart(t)
    \/ EvalCond(t)
    \/ RuleReturn(t)
    \/ Resume(t)

\* threads that call EvaluateStruct, each on either engine
NextRace ==
    \/ \E t \in Threads, e \in EngineIds, entry \in StructEntries, facts \in DataNames :
          CallEvaluateStruct(t, e, entry, facts)
    \/ \E t \in Threads : StepStruct(t)

RaceSpec == InitRace /\ [][NextRace]_vars

\* the goroutine that makes the calls when there is a single caller
Caller == 1

\* the documents of the single caller: the rules P, T and E, and "Ps", the
\* rule P with its operands written as JSON strings ("value": "Neptune"),
\* which json.Unmarshal cannot put into a []interface{}
EvalDocs == {"P", "Ps", "T", "E"}

\* the fact bags of the single caller; "0" is the empty bag
EvalBags == {"0", "NB", "SB", "A5"}

\* a single caller stores and removes rules and evaluates fact bags
NextEval ==
    \/ SetRuleMap(1)
    \/ \E doc \in EvalDocs : CallAddRule(Caller, 1, doc)
    \/ \E doc \in {"T", "E"} : CallDeleteRule(Caller, 1, doc)
    \/ \E facts \in EvalBags : CallEvaluateRules(Caller, 1, facts)
    \/ Step(Caller)

EvalSpec == Init /\ [][NextEval]_vars

\* conditionals for the entries handed to EvaluateStruct: three membership
\* tests and an ordering test that faults on every planet
CondPool ==
    {AstConditional("planet", "anyof", << StrV("Neptune") >>),
     AstConditional("planet", "anyof", << StrV("Saturn") >>),
     AstConditional("colour", "anyof", << StrV("black") >>),
     AstConditional("planet", "lt", << StrV("abc") >>)}

\* the condition lists: empty, or one or two conditionals of the pool
CondLists ==
    {<<>>} \cup {<< c >> : c \in CondPool} \cup {<< c, d >> : c \in CondPool, d \in CondPool}

PoolEntries == {RuleEntry(any, all, <<>>) : any \in CondLists, all \in CondLists}

StructBags == {"0", "NB", "SB"}

\* a single caller evaluates entries of its own with EvaluateStruct
NextStruct ==
    \/ \E entry \in PoolEntries, facts \in StructBags :
          CallEvaluateStruct(Caller, 1, entry, facts)
    \/ StepStruct(Caller)

StructSpec == Init /\ [][NextStruct]_vars

\* the fact values and operands EvaluateOperator is called with directly:
\* int 5, float64 5.0 and 5.5, int 7, strings, a bool, nil and lists
FactValues ==
    {IntV(5), FloatV(10), FloatV(11), IntV(7), StrV("abc"), StrV("5"), BoolV(FALSE),
     ListV(<< StrV("abc") >>)}

OperandValues ==
    FactValues \cup {NilV, ListV(<< StrV("abc"), IntV(5) >>), ListV(<<>>)}

\* the names in the case labels of EvaluateOperator
KnownOperators ==
    {"anyof", "noneof", "=", "eq", "!=", "neq", "<", "lt", ">", "gt", ">=", "gte",
     "<=", "lte"}

\* operator names a rule may carry: the known ones and some others
OperatorNames == KnownOperators \cup {"", "EQ", "==", "frob", "contains", "in"}

\* one engine with the default options, no caller; a direct call of
\* EvaluateOperator with any of the arguments is about to be made
InitOp ==
    /\ engines = {1}
    /\ LET re == NewRuleEngineInstance(<<>>) IN
       /\ AllowUndefinedVars = [e \in EngineIds |-> re.AllowUndefinedVars]
       /\ FirstMatch = [e \in EngineIds |-> re.FirstMatch]
       /\ RuleMap = [e \in EngineIds |-> re.RuleMap]
       /\ Mutex = [e \in EngineIds |-> re.Mutex]
    /\ InitThreads
    /\ NewUserService
    /\ \E i \in FactValues, v \in OperandValues, o \in OperatorNames :
          opcall = [identifier |-> i, value |-> v, operator |-> o, result |-> <<>>]

\* EvaluateOperator(identifier, value, operator) runs and returns
ApplyOperator ==
    /\ opcall.result = <<>>
    /\ opcall' = [opcall EXCEPT !.result =
                     << EvaluateOperator(opcall.identifier, opcall.value, opcall.operator) >>]
    /\ UNCHANGED << engines, AllowUndefinedVars, FirstMatch, RuleMap, Mutex, options,
                    calls, pc, eng, op, rule, data, ruleBlock, visited, ei, cursor, ret,
                    faulted, snap, userService >>

\* the direct call, and the same conditional taken through the engine: the
\* caller stores the rule of document "OP", whose one conditional carries the
\* operator and operand of the direct call, and evaluates the fact bag "X",
\* which holds the identifier of the direct call
NextOp ==
    \/ ApplyOperator
    \/ SetRuleMap(1)
    \/ CallAddRule(Caller, 1, "OP")
    \/ CallDeleteRule(Caller, 1, "OP")
    \/ CallEvaluateRules(Caller, 1, "X")
    \/ Step(Caller)

OpSpec == InitOp /\ [][NextOp]_vars

\* the documents of the single caller whose rules have entries in sequence:
\* M (two entries), T (an entry that aborts on a non-numeric operand), E
\* (an entry that always matches) and D (a rule that is switched off)
MatchDocs == {"M", "T", "E", "D"}

\* a single caller stores and removes these rules and evaluates fact bags
NextMatch ==
    \/ SetRuleMap(1)
    \/ \E doc \in MatchDocs : CallAddRule(Caller, 1, doc)
    \/ \E doc \in {"M", "E"} : CallDeleteRule(Caller, 1, doc)
    \/ \E facts \in EvalBags : CallEvaluateRules(Caller, 1, facts)
    \/ Step(Caller)

MatchSpec == Init /\ [][NextMatch]_vars

\* one engine, built with each combination of the two options
InitFlag ==
    /\ engines = {1}
    /\ \E a \in BOOLEAN, f \in BOOLEAN :
          LET re == NewRuleEngineInstance(<< [AllowUndefinedVars |-> a, FirstMatch |-> f] >>)
          IN /\ AllowUndefinedVars = [e \in EngineIds |-> re.AllowUndefinedVars]
             /\ FirstMatch = [e \in EngineIds |-> re.FirstMatch]
             /\ RuleMap = [e \in EngineIds |-> re.RuleMap]
             /\ Mutex = [e \in EngineIds |-> re.Mutex]
    /\ InitThreads
    /\ opcall = NoOpCall
    /\ NewUserService

\* the single caller of MatchSpec, on an engine with either FirstMatch
FlagSpec == InitFlag /\ [][NextMatch]_vars

\* the values the fact x has in its bag: JSON null (a nil interface), the
\* zero values false, 0 and "", and a non-zero string
FactBagValues == {NilV, BoolV(FALSE), IntV(0), StrV(""), StrV("abc")}

\* the operands the fact is compared with: each zero value in a list
ZeroOperands == {ListV(<< BoolV(FALSE) >>), ListV(<< IntV(0) >>), ListV(<< StrV("") >>)}

\* one engine, built with any options; the rule and the fact bag of the
\* calls: fact x, with any of the values, against any of the operands
InitFact ==
    /\ engines = {1}
    /\ \E o \in OptionArgs :
          LET re == NewRuleEngineInstance(o) IN
          /\ AllowUndefinedVars = [e \in EngineIds |-> re.AllowUndefinedVars]
          /\ FirstMatch = [e \in EngineIds |-> re.FirstMatch]
          /\ RuleMap = [e \in EngineIds |-> re.RuleMap]
          /\ Mutex = [e \in EngineIds |-> re.Mutex]
    /\ InitThreads
    /\ NewUserService
    /\ \E i \in FactBagValues, v \in ZeroOperands, o \in {"anyof", "noneof", "lt"} :
          opcall = [identifier |-> i, value |-> v, operator |-> o, result |-> <<>>]

\* a single caller evaluates the rule with EvaluateStruct, on the bag that
\* holds the fact x and on the empty bag
NextFact ==
    \/ \E facts \in {"X", "0"} :
          CallEvaluateStruct(Caller, 1, BlockOP.RuleEntries[1], facts)
    \/ StepStruct(Caller)

FactSpec == InitFact /\ [][NextFact]_vars

(***************************************************************************)
(* The UserService: an in-memory store of users behind one mutex.  A user  *)
(* is modelled by its ID, Username and Email; the other fields of          *)
(* models.User (names, timestamps) are copied and never read by the        *)
(* service.                                                                *)
(***************************************************************************)
ErrUserNotFound == "user not found"
ErrUsernameExists == "username already exists"
ErrEmailExists == "email already exists"

\* the engine side of the process, which no method of UserService touches
ruleEngine == << engines, AllowUndefinedVars, FirstMatch, RuleMap, Mutex, options,
                 pc, eng, op, rule, data, ruleBlock, visited, ei, cursor, ret,
                 faulted, snap, opcall >>

Usernames == {"alice", "bob"}
Emails == {"alice@example.com", "bob@example.com"}

\* models.CreateUserRequest: both fields are plain strings
CreateUserRequest == [Username : Usernames, Email : Emails]

\* a *string field: <<>> is the nil pointer, << s >> points to s
Pointers(S) == {<<>>} \cup {<< x >> : x \in S}

\* models.UpdateUserRequest: both fields are pointers
UpdateUserRequest == [Username : Pointers(Usernames), Email : Pointers(Emails)]

\* the ids callers pass: the first two ids the service hands out
UserIds == {1, 2}

\* the keys of the users map
StoredIds == {u.ID : u \in users}

\* users[id], for a stored id
UserAt(id) == CHOOSE u \in users : u.ID = id

\* a goroutine calls CreateUser(req)
CallCreateUser(t, req) ==
    /\ ucall[t].pc = "idle"
    /\ calls < MaxCalls
    /\ calls' = calls + 1
    /\ ucall' = [ucall EXCEPT ![t] = [pc |-> "lock", op |-> "CreateUser", id |-> 0,
                                      Username |-> << req.Username >>,
                                      Email |-> << req.Email >>, err |-> ""]]
    /\ UNCHANGED << users, nextID, mutex, ruleEngine >>

\* a goroutine calls UpdateUser(id, req)
CallUpdateUser(t, id, req) ==
    /\ ucall[t].pc = "idle"
    /\ calls < MaxCalls
    /\ calls' = calls + 1
    /\ ucall' = [ucall EXCEPT ![t] = [pc |-> "lock", op |-> "UpdateUser", id |-> id,
                                      Username |-> req.Username,
                                      Email |-> req.Email, err |-> ""]]
    /\ UNCHANGED << users, nextID, mutex, ruleEngine >>

\* a goroutine calls DeleteUser(id)
CallDeleteUser(t, id) ==
    /\ ucall[t].pc = "idle"
    /\ calls < MaxCalls
    /\ calls' = calls + 1
    /\ ucall' = [ucall EXCEPT ![t] = [pc |-> "lock", op |-> "DeleteUser", id |-> id,
                                      Username |-> <<>>, Email |-> <<>>, err |-> ""]]
    /\ UNCHANGED << users, nextID, mutex, ruleEngine >>

\* s.mutex.Lock(): blocks while another goroutine holds the mutex
UserLock(t) ==
    /\ ucall[t].pc = "lock"
    /\ mutex = 0
    /\ mutex' = t
    /\ ucall' = [ucall EXCEPT ![t].pc = "body"]
    /\ UNCHANGED << users, nextID, calls, ruleEngine >>

\* the stored users a CreateUser request collides with
CreateConflicts(req) ==
    {u \in users : u.Username = req.Username[1] \/ u.Email = req.Email[1]}

\* UpdateUser comparing usernames only
UpdateConflicts_UsernameOnly(id, req) ==
    {u \in users : /\ u.ID # id
                   /\ req.Username # <<>> /\ u.Username = req.Username[1]}

\* the other stored users an UpdateUser request collides with
UpdateConflicts(id, req) ==
    {u \in users : /\ u.ID # id
                   /\ \/ req.Username # <<>> /\ u.Username = req.Username[1]
                      \/ req.Email # <<>> /\ u.Email = req.Email[1]}

\* the error of the loop body of CreateUser at user u, which collides
CreateError(u, req) ==
    IF u.Username = req.Username[1] THEN ErrUsernameExists ELSE ErrEmailExists

\* the error of the loop body of UpdateUser at user u, which collides
UpdateError(u, req) ==
    IF req.Username # <<>> /\ u.Username = req.Username[1]
    THEN ErrUsernameExists ELSE ErrEmailExists

\* the body of CreateUser: the loop returns at the first colliding user the
\* map iteration produces, which may be any of them; otherwise the user is
\* stored under nextID
CreateUser(t) ==
    /\ ucall[t].pc = "body"
    /\ ucall[t].op = "CreateUser"
    /\ LET req == ucall[t] IN
       IF CreateConflicts(req) # {}
       THEN /\ \E u \in CreateConflicts(req) :
                  ucall' = [ucall EXCEPT ![t].pc = "unlock",
                                         ![t].err = CreateError(u, req)]
            /\ UNCHANGED << users, nextID >>
       ELSE /\ users' = users \cup {[ID |-> nextID, Username |-> req.Username[1],
                                     Email |-> req.Email[1]]}
            /\ nextID' = nextID + 1
            /\ ucall' = [ucall EXCEPT ![t].pc = "unlock"]
    /\ UNCHANGED << mutex, calls, ruleEngine >>

\* the fields UpdateUser writes into the stored user
Updated(user, req) ==
    [ID |-> user.ID,
     Username |-> IF req.Username # <<>> THEN req.Username[1] ELSE user.Username,
     Email |-> IF req.Email # <<>> THEN req.Email[1] ELSE user.Email]

\* the body of UpdateUser
UpdateUser(t) ==
    /\ ucall[t].pc = "body"
    /\ ucall[t].op = "UpdateUser"
    /\ LET req == ucall[t]
           id == ucall[t].id
       IN IF id \notin StoredIds
          THEN /\ ucall' = [ucall EXCEPT ![t].pc = "unlock", ![t].err = ErrUserNotFound]
               /\ UNCHANGED users
          ELSE IF UpdateConflicts(id, req) # {}
          THEN /\ \E u \in UpdateConflicts(id, req) :
                     ucall' = [ucall EXCEPT ![t].pc = "unlock",
                                            ![t].err = UpdateError(u, req)]
               /\ UNCHANGED users
          ELSE /\ users' = (users \ {UserAt(id)}) \cup {Updated(UserAt(id), req)}
               /\ ucall' = [ucall EXCEPT ![t].pc = "unlock"]
    /\ UNCHANGED << nextID, mutex, calls, ruleEngine >>

\* the body of DeleteUser
DeleteUser(t) ==
    /\ ucall[t].pc = "body"
    /\ ucall[t].op = "DeleteUser"
    /\ LET id == ucall[t].id IN
       IF id \notin StoredIds
       THEN /\ ucall' = [ucall EXCEPT ![t].pc = "unlock", ![t].err = ErrUserNotFound]
            /\ UNCHANGED users
       ELSE /\ users' = users \ {UserAt(id)}
            /\ ucall' = [ucall EXCEPT ![t].pc = "unlock"]
    /\ UNCHANGED << nextID, mutex, calls, ruleEngine >>

\* the deferred s.mutex.Unlock(), and the return to the caller
UserUnlock(t) ==
    /\ ucall[t].pc = "unlock"
    /\ mutex' = 0
    /\ ucall' = [ucall EXCEPT ![t] = NoUserCall]
    /\ UNCHANGED << users, nextID, calls, ruleEngine >>

\* goroutines calling the three writing methods of one UserService
NextUser ==
    \E t \in Threads :
        \/ \E req \in CreateUserRequest : CallCreateUser(t, req)
        \/ \E id \in UserIds, req \in UpdateUserRequest : CallUpdateUser(t, id, req)
        \/ \E id \in UserIds : CallDeleteUser(t, id)
        \/ UserLock(t)
        \/ CreateUser(t)
        \/ UpdateUser(t)
        \/ DeleteUser(t)
        \/ UserUnlock(t)

\* a process whose engine was built from the default options
InitUser == Init /\ AllowUndefinedVars[1] = defaultOptions.AllowUndefinedVars

UserSpec == InitUser /\ [][NextUser]_vars

(***************************************************************************)
(* The claims.                                                             *)
(***************************************************************************)
\* thread t is between its Lock and its deferred Unlock
InCS(t) ==
    /\ op[t] # "EvaluateStruct"
    /\ pc[t] \in {"add", "del", "range", "entries", "rule", "conds", "ruled", "unlock"}

\* the uuid of a document that decodes to a block
UuidOf(doc) == ParseJSON(doc).block[1].UUID

\* AddRule run alone on rule map rm: the map and the result it leaves
SerialAddRule(rm, doc) ==
    LET r == ParseJSON(doc) IN
    IF r.err # "none" THEN [map |-> rm, ret |-> Panic(r.err)]
    ELSE IF r.block = <<>> THEN [map |-> rm, ret |-> Panic("nilptr")]
    ELSE IF rm.isNil THEN [map |-> rm, ret |-> Panic("nilmap")]
    ELSE [map |-> [rm EXCEPT !.at[r.block[1].UUID] = r.block], ret |-> Returned]

\* DeleteRule run alone on rule map rm
SerialDeleteRule(rm, doc) ==
    LET r == ParseJSON(doc) IN
    IF r.err # "none" THEN [map |-> rm, ret |-> Panic(r.err)]
    ELSE IF r.block = <<>> THEN [map |-> rm, ret |-> Panic("nilptr")]
    ELSE [map |-> [rm EXCEPT !.at[r.block[1].UUID] = <<>>], ret |-> Returned]

\* what the entries of one block, taken in order from the i-th, decide:
\* a match, a panic, or nothing (NoRet)
RECURSIVE BlockOutcome(_, _, _, _)
BlockOutcome(block, i, facts, opts) ==
    IF i > Len(block.RuleEntries) THEN NoRet
    ELSE LET r == EvaluateRule(block.RuleEntries[i], facts, opts) IN
         IF r.err # "none" THEN Panic(r.err)
         ELSE IF r.ok /\ defaultOptions.FirstMatch THEN Match(block.UUID, block.RuleEntries[i])
         ELSE BlockOutcome(block, i + 1, facts, opts)

\* EvaluateRules run alone on rule map rm: the results it can give, one for
\* each order in which the blocks may be traversed
SerialEvaluateRules(rm, facts, opts) ==
    LET decided == {BlockOutcome(rm.at[u][1], 1, facts, opts) : u \in Keys(rm)} \ {NoRet}
    IN IF decided = {} THEN {NoMatch} ELSE decided

\* C1: when every thread has made one AddRule call on the engine, each with a
\* valid document of a distinct uuid, and all the calls are over, each call
\* returned the engine and the rule store holds exactly these blocks, each
\* as decoded from its document.
C1_ConcurrentAddRule ==
    ( /\ calls = NumThreads
      /\ \A t \in Threads : pc[t] = "exit" /\ op[t] = "AddRule" /\ rule[t] \in ValidDocs
      /\ \A t, u \in Threads : t # u => UuidOf(rule[t]) # UuidOf(rule[u]) )
    => /\ \A t \in Threads :
             /\ ret[t] = Returned
             /\ RuleMap[1].at[UuidOf(rule[t])] = ParseJSON(rule[t]).block
       /\ Keys(RuleMap[1]) = {UuidOf(rule[t]) : t \in Threads}

\* C2: a mutex is never held by a call that is over, also when the call was
\* an EvaluateRules that panicked under the lock; and every call that waits
\* for the mutex gets it and comes to its end.
C2_LockReleasedOnAbort ==
    /\ [](\A t \in Threads : pc[t] \in {"idle", "exit"} => \A e \in EngineIds : Mutex[e] # t)
    /\ \A t \in Threads : (pc[t] = "lock") ~> (pc[t] = "exit")

\* an EvaluateRules call panicked under the lock and is over, and another
\* thread has the mutex of that engine
C2_Witness ==
    \E t, u \in Threads :
        /\ t # u
        /\ pc[t] = "exit" /\ op[t] = "EvaluateRules" /\ ret[t].kind = "panic"
        /\ Mutex[eng[t]] = u /\ InCS(u)

\* C3: on one engine at most one call is between Lock and Unlock, it is the
\* one holding the mutex, the rule map does not change under it, and when
\* its body is done the map and its result are those of the same call run
\* alone on the map it found when it took the lock.
C3_Serializable ==
    /\ \A t, u \in Threads : (t # u /\ InCS(t) /\ InCS(u)) => eng[t] # eng[u]
    /\ \A t \in Threads : InCS(t) => Mutex[eng[t]] = t
    /\ \A t \in Threads :
          (InCS(t) /\ pc[t] \notin {"add", "del", "unlock"}) => RuleMap[eng[t]] = snap[t]
    /\ \A t \in Threads : pc[t] = "unlock" =>
          CASE op[t] = "AddRule" ->
                  [map |-> RuleMap[eng[t]], ret |-> ret[t]] = SerialAddRule(snap[t], rule[t])
            [] op[t] = "DeleteRule" ->
                  [map |-> RuleMap[eng[t]], ret |-> ret[t]] = SerialDeleteRule(snap[t], rule[t])
            [] OTHER ->
                  /\ RuleMap[eng[t]] = snap[t]
                  /\ ret[t] \in SerialEvaluateRules(snap[t], Data(data[t]),
                                                    << AllowUndefinedVars[eng[t]] >>)

\* an EvaluateRules call has found its match while another thread waits for
\* the mutex with an AddRule that replaces the matched block by another
C3_Witness ==
    \E t, u \in Threads :
        /\ pc[t] = "unlock" /\ op[t] = "EvaluateRules" /\ ret[t].kind = "match"
        /\ pc[u] = "lock" /\ op[u] = "AddRule" /\ eng[u] = eng[t]
        /\ ruleBlock[u] # <<>>
        /\ ruleBlock[u][1].UUID = ret[t].id
        /\ ruleBlock[u] # RuleMap[eng[t]].at[ret[t].id]

\* C4: what EvaluateStruct returns for an entry and a fact bag is what
\* EvaluateRule gives for that entry, that bag and the options of the engine
\* called, whatever other engines evaluate at the same time; so an engine
\* that allows undefined facts never panics over one.
C4_EvaluatorPure ==
    \A t \in Threads : (pc[t] = "exit" /\ op[t] = "EvaluateStruct") =>
        LET r == EvaluateRule(ruleBlock[t][1].RuleEntries[1], Data(data[t]),
                              << AllowUndefinedVars[eng[t]] >>)
        IN /\ ret[t] = IF r.err # "none" THEN Panic(r.err) ELSE Bool(r.ok)
           /\ AllowUndefinedVars[eng[t]] => ret[t].fault # "undef"

\* C5: once a conditional evaluated inside EvaluateRules has raised a fault
\* (a missing fact that is not allowed, no operand, an operand type error or
\* an unknown operator), the call evaluates nothing more and ends in a panic
\* of that kind; it never ends in a match or in (false, "", nil).
C5_FaultsPropagate ==
    \A t \in Threads : (op[t] = "EvaluateRules" /\ faulted[t]) =>
        /\ pc[t] \in {"unlock", "exit"}
        /\ ret[t].kind = "panic"
        /\ ret[t].fault \in {"undef", "noval", "type", "unknownop"}

\* an EvaluateRules call is over: it panicked over a conditional without operand
C5_Witness ==
    \E t \in Threads :
        /\ pc[t] = "exit" /\ op[t] = "EvaluateRules" /\ faulted[t]
        /\ ret[t] = Panic("noval")

\* C6: an AddRule or DeleteRule call whose text does not decode to a Rule
\* Block ends by returning to its caller, not in a panic.
C6_DecodeErrorReturned ==
    \A t \in Threads :
        (pc[t] = "exit" /\ op[t] \in {"AddRule", "DeleteRule"} /\ rule[t] \notin ValidDocs)
        => ret[t].kind # "panic"

\* what a step of thread t changes
Regs(t) == << pc[t], cursor[t], ei[t], visited[t], ret[t], ruleBlock[t] >>

\* C7: no step of an AddRule or DeleteRule call whose text does not decode
\* to a Rule Block changes a rule map, and when the call is over it does not
\* hold a mutex.
C7_DecodeFailureNoEffect ==
    [][\A t \in Threads :
          ( /\ Regs(t)' # Regs(t)
            /\ op'[t] \in {"AddRule", "DeleteRule"}
            /\ rule'[t] \notin ValidDocs )
          => /\ RuleMap' = RuleMap
             /\ pc'[t] = "exit" => \A e \in EngineIds : Mutex'[e] # t]_vars

\* an AddRule of text that is not JSON is over, the engine holding a block
C7_Witness ==
    \E t \in Threads :
        /\ pc[t] = "exit" /\ op[t] = "AddRule" /\ rule[t] = "bad"
        /\ Keys(RuleMap[eng[t]]) # {}

\* C8: when the body of an AddRule with a valid document is done, the call
\* is about to return the engine, the decoded block is stored under its uuid,
\* whole, and every other uuid holds what it held when the lock was taken.
C8_AddRuleStores ==
    \A t \in Threads :
        (pc[t] = "unlock" /\ op[t] = "AddRule" /\ rule[t] \in ValidDocs) =>
            /\ ret[t] = Returned
            /\ RuleMap[eng[t]].at[UuidOf(rule[t])] = ParseJSON(rule[t]).block
            /\ \A u \in UUIDs \ {UuidOf(rule[t])} :
                  RuleMap[eng[t]].at[u] = snap[t].at[u]

\* C9: the body of a DeleteRule with a valid document takes the block under
\* the document's uuid out of the map, changes nothing else and returns
\* without a fault, also when the uuid was absent; a uuid gets into a map only
\* by the body of an AddRule of that uuid; and EvaluateRules returns only
\* the uuid of a block that is in the map when it returns.
C9_DeleteRuleRemoves ==
    [][ /\ \A t \in Threads :
             (pc[t] = "del" /\ pc'[t] = "unlock" /\ rule[t] \in ValidDocs) =>
                 /\ RuleMap' = [RuleMap EXCEPT ![eng[t]].at[UuidOf(rule[t])] = <<>>]
                 /\ ret'[t] = Returned
        /\ \A e \in EngineIds, u \in UUIDs :
             (RuleMap[e].at[u] = <<>> /\ RuleMap'[e].at[u] # <<>>) =>
                 \E t \in Threads :
                     /\ pc[t] = "add" /\ pc'[t] = "unlock" /\ eng[t] = e
                     /\ ruleBlock[t][1].UUID = u
        /\ \A t \in Threads :
             (op[t] = "EvaluateRules" /\ ret[t].kind # "match" /\ ret'[t].kind = "match") =>
                 RuleMap'[eng[t]].at[ret'[t].id] # <<>> ]_vars

\* the body of a DeleteRule has taken a block out of a map that holds another
C9_Witness ==
    \E t \in Threads :
        /\ pc[t] = "unlock" /\ op[t] = "DeleteRule" /\ rule[t] \in ValidDocs
        /\ snap[t].at[UuidOf(rule[t])] # <<>>
        /\ RuleMap[eng[t]].at[UuidOf(rule[t])] = <<>>
        /\ Keys(RuleMap[eng[t]]) # {}

\* C10: no step of an EvaluateRules call changes a rule map, whatever the
\* fact bag and however the call ends.
C10_EvaluateRulesReadOnly ==
    [][\A t \in Threads :
          (Regs(t)' # Regs(t) /\ op'[t] = "EvaluateRules") => RuleMap' = RuleMap]_vars

\* an EvaluateRules call that found a match is over
C10_Witness ==
    \E t \in Threads :
        /\ pc[t] = "exit" /\ op[t] = "EvaluateRules" /\ ret[t].kind = "match"
        /\ RuleMap[eng[t]].at[ret[t].id] # <<>>

\* the stored blocks of rm with an entry that matches the facts
MatchingBlocks(rm, facts, opts) ==
    {u \in Keys(rm) :
        \E i \in 1..Len(rm.at[u][1].RuleEntries) :
            EvaluateRule(rm.at[u][1].RuleEntries[i], facts, opts) = Ok(TRUE)}

\* the stored blocks of rm whose entries, taken in order, end the call:
\* by an entry that matches, or by an entry that aborts before any matches
DecidingBlocks(rm, facts, opts) ==
    {u \in Keys(rm) : BlockOutcome(rm.at[u][1], 1, facts, opts) # NoRet}

\* C11 as stated: when at most one stored block has an entry that matches
\* the fact bag, the result of EvaluateRules (match with block id and entry,
\* no match, or abort) is the one every traversal order of the blocks gives.
C11_DeterministicOutcome ==
    \A t \in Threads :
        ( /\ pc[t] = "unlock" /\ op[t] = "EvaluateRules"
          /\ Cardinality(MatchingBlocks(snap[t], Data(data[t]),
                                        << AllowUndefinedVars[eng[t]] >>)) <= 1 )
        => SerialEvaluateRules(snap[t], Data(data[t]), << AllowUndefinedVars[eng[t]] >>)
              = {ret[t]}

\* C11 amended: when at most one stored block has an entry that matches the
\* fact bag or aborts on it before a match of that block, the result of
\* EvaluateRules is the one every traversal order of the blocks gives.
C11_DeterministicOutcomeAmended ==
    \A t \in Threads :
        ( /\ pc[t] = "unlock" /\ op[t] = "EvaluateRules"
          /\ Cardinality(DecidingBlocks(snap[t], Data(data[t]),
                                        << AllowUndefinedVars[eng[t]] >>)) <= 1 )
        => SerialEvaluateRules(snap[t], Data(data[t]), << AllowUndefinedVars[eng[t]] >>)
              = {ret[t]}

\* EvaluateRules has found its match in a store of two blocks of which the
\* other neither matches the fact bag nor aborts on it
C11_Witness ==
    \E t \in Threads :
        /\ pc[t] = "unlock" /\ op[t] = "EvaluateRules" /\ ret[t].kind = "match"
        /\ Keys(snap[t]) = UUIDs
        /\ Cardinality(DecidingBlocks(snap[t], Data(data[t]),
                                      << AllowUndefinedVars[eng[t]] >>)) = 1

\* C12: with the rule P (empty any; all = planet eq Neptune, colour eq
\* black) as the only stored rule, EvaluateRules on {planet: Neptune,
\* colour: black} returns the match of that rule, and on {planet: Saturn,
\* colour: black} it returns no match.
C12_EndToEndScenario ==
    \A t \in Threads :
        ( /\ pc[t] = "unlock" /\ op[t] = "EvaluateRules"
          /\ Keys(snap[t]) = {"a"} /\ snap[t].at["a"] = << BlockP >> )
        => /\ data[t] = "NB" => ret[t] = Match("a", BlockP.RuleEntries[1])
           /\ data[t] = "SB" => ret[t] = NoMatch

\* an entry whose condition has an empty `any` list and an empty `all` list
EmptyEntry(entry) == Len(entry.Any) = 0 /\ Len(entry.All) = 0

\* the rule map holds a block with such an entry
HasEmptyEntry(rm) ==
    \E u \in Keys(rm) :
        \E i \in 1..Len(rm.at[u][1].RuleEntries) : EmptyEntry(rm.at[u][1].RuleEntries[i])

\* C14 as stated: EvaluateRules on a store that holds an entry with an
\* empty `any` and an empty `all` list ends in a match, whatever the fact
\* bag and AllowUndefinedVars; it never aborts.
C14_EmptyConditionMatches ==
    \A t \in Threads :
        (pc[t] = "unlock" /\ op[t] = "EvaluateRules" /\ HasEmptyEntry(snap[t]))
        => ret[t].kind = "match"

\* C14 amended: an entry with an empty `any` and an empty `all` list is
\* true on every fact bag, with AllowUndefinedVars true or false, and no
\* conditional is evaluated for it, so it never aborts; EvaluateRules on a
\* store that holds such an entry never ends in no match: it ends in a
\* match, or in the abort of a conditional of an entry traversed before.
C14_EmptyConditionMatchesAmended ==
    \A t \in Threads :
        LET entry == ruleBlock[t][1].RuleEntries[ei[t]] IN
        /\ pc[t] = "conds" => ~EmptyEntry(entry)
        /\ (pc[t] = "ruled" /\ EmptyEntry(entry)) => (cursor[t].any /\ cursor[t].all)
        /\ (pc[t] = "unlock" /\ op[t] = "EvaluateRules" /\ HasEmptyEntry(snap[t])) =>
              \/ ret[t].kind = "match"
              \/ ret[t].kind = "panic" /\ faulted[t]
        /\ ( /\ pc[t] = "unlock" /\ op[t] = "EvaluateRules"
             /\ ret[t].kind = "match" /\ ret[t].id = "b"
             /\ snap[t].at["b"] = << BlockE >> ) =>
              ret[t] = Match("b", BlockE.RuleEntries[1])

\* EvaluateRules on the empty fact bag has returned the match of the entry
\* with the empty condition, from a store of two blocks
C14_Witness ==
    \E t \in Threads :
        /\ pc[t] = "unlock" /\ op[t] = "EvaluateRules" /\ data[t] = "0"
        /\ Keys(snap[t]) = UUIDs
        /\ ret[t] = Match("b", BlockE.RuleEntries[1])

\* the entry an EvaluateStruct call of thread t was given
StructEntry(t) == ruleBlock[t][1].RuleEntries[1]

\* the conditionals of list L that evaluate to b on the facts
Evaluating(L, b, facts, opts) ==
    {i \in 1..Len(L) : CondResult(L[i], facts, opts) = Ok(b)}

\* the conditionals of list L whose evaluation aborts on the facts
Faulting(L, facts, opts) ==
    {i \in 1..Len(L) : CondResult(L[i], facts, opts).err # "none"}

\* C13: when neither side aborts, what EvaluateStruct returns for an entry
\* is any_satisfied AND all_satisfied, each side being true for an empty
\* list and the result of EvaluateAnyCondition / EvaluateAllCondition
\* otherwise, and the call aborts exactly when a side does; so an entry
\* with a non-empty `any` list of which every conditional is false does not
\* match even when every conditional of `all` is true.
C13_AnyAndAll ==
    \A t \in Threads : (pc[t] = "exit" /\ op[t] = "EvaluateStruct") =>
        LET entry == StructEntry(t)
            facts == Data(data[t])
            opts == << AllowUndefinedVars[eng[t]] >>
            any_satisfied == IF Len(entry.Any) = 0 THEN Ok(TRUE)
                             ELSE EvaluateAnyCondition(entry.Any, facts, opts)
            all_satisfied == IF Len(entry.All) = 0 THEN Ok(TRUE)
                             ELSE EvaluateAllCondition(entry.All, facts, opts)
        IN /\ (any_satisfied.err = "none" /\ all_satisfied.err = "none") =>
                 ret[t] = Bool(any_satisfied.ok /\ all_satisfied.ok)
           /\ ret[t].kind = "panic" <=>
                 (any_satisfied.err # "none" \/ all_satisfied.err # "none")
           /\ ( /\ Len(entry.Any) > 0
                /\ Evaluating(entry.Any, FALSE, facts, opts) = 1..Len(entry.Any)
                /\ Evaluating(entry.All, TRUE, facts, opts) = 1..Len(entry.All) )
              => ret[t] = Bool(FALSE)

\* EvaluateStruct has returned false for an entry whose only `any`
\* conditional is false and whose only `all` conditional is true
C13_Witness ==
    \E t \in Threads :
        /\ pc[t] = "exit" /\ op[t] = "EvaluateStruct" /\ ret[t] = Bool(FALSE)
        /\ Len(StructEntry(t).Any) = 1 /\ Len(StructEntry(t).All) = 1
        /\ CondResult(StructEntry(t).Any[1], Data(data[t]),
                      << AllowUndefinedVars[eng[t]] >>) = Ok(FALSE)
        /\ CondResult(StructEntry(t).All[1], Data(data[t]),
                      << AllowUndefinedVars[eng[t]] >>) = Ok(TRUE)

\* exists(c in L: evaluate_conditional(c, facts) == b), the conditionals
\* taken in order up to the first that evaluates to b: the abort of a
\* conditional reached on the way is the abort of the whole expression
ExistsInOrder(L, b, facts, opts) ==
    LET stops == Evaluating(L, b, facts, opts) \cup Faulting(L, facts, opts) IN
    IF stops = {} THEN Ok(FALSE)
    ELSE LET first == CHOOSE i \in stops : \A k \in stops : i <= k IN
         IF first \in Faulting(L, facts, opts) THEN CondResult(L[first], facts, opts)
         ELSE Ok(TRUE)

\* C15: for a non-empty list L and any fact bag, EvaluateAllCondition(L)
\* (what EvaluateStruct returns for an entry with no `any` list and `all` =
\* L) is true exactly when no conditional of L evaluates false, and
\* EvaluateAnyCondition(L) (an entry with no `all` list and `any` = L) is
\* true exactly when some conditional of L evaluates true; the call aborts
\* exactly when the conditionals taken in order reach one that aborts
\* before the one that decides.
C15_AllAnySemantics ==
    \A t \in Threads : (pc[t] = "exit" /\ op[t] = "EvaluateStruct") =>
        LET entry == StructEntry(t)
            facts == Data(data[t])
            opts == << AllowUndefinedVars[eng[t]] >>
            someFalse == ExistsInOrder(entry.All, FALSE, facts, opts)
            someTrue == ExistsInOrder(entry.Any, TRUE, facts, opts)
        IN /\ (Len(entry.Any) = 0 /\ Len(entry.All) > 0) =>
                 /\ ret[t] = IF someFalse.err # "none" THEN Panic(someFalse.err)
                             ELSE Bool(~someFalse.ok)
                 /\ ret[t] = Bool(TRUE) => Evaluating(entry.All, FALSE, facts, opts) = {}
                 /\ ret[t] = Bool(FALSE) => Evaluating(entry.All, FALSE, facts, opts) # {}
           /\ (Len(entry.All) = 0 /\ Len(entry.Any) > 0) =>
                 /\ ret[t] = IF someTrue.err # "none" THEN Panic(someTrue.err)
                             ELSE Bool(someTrue.ok)
                 /\ ret[t] = Bool(TRUE) => Evaluating(entry.Any, TRUE, facts, opts) # {}
                 /\ ret[t] = Bool(FALSE) => Evaluating(entry.Any, TRUE, facts, opts) = {}

\* EvaluateStruct has returned false for an entry with no `any` list and an
\* `all` list of two conditionals, the first true and the second false
C15_Witness ==
    \E t \in Threads :
        /\ pc[t] = "exit" /\ op[t] = "EvaluateStruct" /\ ret[t] = Bool(FALSE)
        /\ Len(StructEntry(t).Any) = 0 /\ Len(StructEntry(t).All) = 2
        /\ Evaluating(StructEntry(t).All, TRUE, Data(data[t]),
                      << AllowUndefinedVars[eng[t]] >>) = {1}
        /\ Evaluating(StructEntry(t).All, FALSE, Data(data[t]),
                      << AllowUndefinedVars[eng[t]] >>) = {2}

\* the conditionals of an entry, `any` list first
Conditionals(entry) == entry.Any \o entry.All

\* the fact of conditional c is absent from the fact bag
Absent(c, facts) == c.Fact \notin DOMAIN facts

\* C16: on an engine with AllowUndefinedVars = false, a call whose
\* evaluation comes to a conditional whose fact is absent from the fact bag
\* (here the first conditional of the entry) ends in the undefined-fact
\* abort; it does not take the conditional as false and returns no result.
C16_UndefinedFactAborts ==
    \A t \in Threads :
        ( /\ pc[t] = "exit" /\ op[t] = "EvaluateStruct"
          /\ ~AllowUndefinedVars[eng[t]]
          /\ Conditionals(StructEntry(t)) # <<>>
          /\ Absent(Conditionals(StructEntry(t))[1], Data(data[t])) )
        => ret[t] = Panic("undef")

\* C17: on an engine with AllowUndefinedVars = true, a call on a rule whose
\* conditionals reference facts absent from the fact bag, and whose
\* comparisons the Boolean false fails, returns a non-match and does not
\* abort.
C17_UndefinedFactSubstituted ==
    \A t \in Threads :
        ( /\ pc[t] = "exit" /\ op[t] = "EvaluateStruct"
          /\ AllowUndefinedVars[eng[t]]
          /\ Conditionals(StructEntry(t)) # <<>>
          /\ \A i \in 1..Len(Conditionals(StructEntry(t))) :
                LET c == Conditionals(StructEntry(t))[i] IN
                /\ Absent(c, Data(data[t]))
                /\ EvaluateConditional(c, BoolV(FALSE)) = Ok(FALSE) )
        => ret[t] = Bool(FALSE)

\* thread t takes the step that evaluates the conditional under its cursor
EvaluatesConditional(t) ==
    /\ pc[t] = "conds"
    /\ << pc[t], cursor[t] >>' # << pc[t], cursor[t] >>

\* a value is numeric: an integer or a floating-point number
IsNumeric(v) == v.t \in {"int", "float64"}

\* C18: an ordering operator (lt, gt, gte, lte) called with a fact or an
\* operand that is not numeric returns an operand-type error; and when
\* EvaluateRules evaluates a conditional with such an operator whose fact or
\* operand is not numeric, the call aborts with that fault at this step
\* instead of taking the conditional as false.
C18_OrderingTypeError ==
    /\ [](( /\ opcall.result # <<>>
            /\ opcall.operator \in {"lt", "gt", "gte", "lte"}
            /\ ~IsNumeric(opcall.identifier) \/ ~IsNumeric(opcall.value) )
          => opcall.result[1] = Err("type"))
    /\ [][\A t \in Threads :
            ( /\ EvaluatesConditional(t)
              /\ op[t] = "EvaluateRules"
              /\ CurrentConditional(t).Operator \in {"lt", "gt", "gte", "lte"}
              /\ CurrentConditional(t).Value # <<>>
              /\ \/ ~IsNumeric(Lookup(Data(data[t]), CurrentConditional(t).Fact))
                 \/ \E i \in 1..Len(CurrentConditional(t).Value) :
                        ~IsNumeric(CurrentConditional(t).Value[i]) )
            => /\ ret'[t] = Panic("type")
               /\ pc'[t] = "unlock"]_vars

\* the direct call of lt on the number 5 and "abc" has returned, and an
\* EvaluateRules call on the rule `x lt ["abc"]` and the fact x = 5 is over
C18_Witness ==
    /\ opcall.identifier = IntV(5)
    /\ opcall.value = ListV(<< StrV("abc") >>)
    /\ opcall.operator = "lt"
    /\ opcall.result = << Err("type") >>
    /\ pc[Caller] = "exit" /\ op[Caller] = "EvaluateRules" /\ ret[Caller] = Panic("type")

\* C19: eq, neq, = and != return a boolean and no error for every fact and
\* operand; when the two are not both numeric, eq is true exactly when they
\* are the same value (and neq exactly when they are not), so a list
\* compared with a scalar gives false under eq.
C19_EqualityTotal ==
    ( /\ opcall.result # <<>>
      /\ opcall.operator \in {"eq", "=", "neq", "!="} )
    => /\ opcall.result[1].err = "none"
       /\ ~(IsNumeric(opcall.identifier) /\ IsNumeric(opcall.value)) =>
             opcall.result[1].ok =
                IF opcall.operator \in {"eq", "="}
                THEN opcall.identifier = opcall.value
                ELSE opcall.identifier # opcall.value

\* the operator names the claim C20 gives as the whole vocabulary
C20_ClaimedVocabulary ==
    {"eq", "=", "neq", "!=", "lt", "gt", "gte", "lte", "anyof", "noneof"}

\* C20 as stated: EvaluateOperator called with an operator name outside eq,
\* =, neq, !=, lt, gt, gte, lte, anyof, noneof returns an unknown-operator
\* error, whatever the fact and the operand.
C20_FixedVocabulary ==
    (opcall.result # <<>> /\ opcall.operator \notin C20_ClaimedVocabulary)
    => opcall.result[1] = Err("unknownop")

\* the vocabulary of C20 as amended: the ten names and <, >, >=, <=
C20_AmendedVocabulary == C20_ClaimedVocabulary \cup {"<", ">", ">=", "<="}

\* C20 amended: EvaluateOperator called with an operator name outside eq, =,
\* neq, !=, lt, <, gt, >, gte, >=, lte, <=, anyof, noneof returns an
\* unknown-operator error, whatever the fact and the operand, and with a
\* name inside it never does; and when EvaluateRules evaluates a conditional
\* whose operator is outside this set, the call aborts at this step.
C20_FixedVocabularyAmended ==
    /\ [](opcall.result # <<>> =>
            (opcall.operator \notin C20_AmendedVocabulary
                <=> opcall.result[1] = Err("unknownop")))
    /\ [][\A t \in Threads :
            ( /\ EvaluatesConditional(t)
              /\ op[t] = "EvaluateRules"
              /\ CurrentConditional(t).Operator \notin C20_AmendedVocabulary )
            => /\ ret'[t].kind = "panic"
               /\ pc'[t] = "unlock"]_vars

\* the direct call with the name "frob" has returned, and an EvaluateRules
\* call on a rule with that operator is over: it aborted over the operator
C20_Witness ==
    /\ opcall.operator = "frob"
    /\ opcall.result = << Err("unknownop") >>
    /\ pc[Caller] = "exit" /\ op[Caller] = "EvaluateRules"
    /\ ret[Caller] = Panic("unknownop")

\* a list operand: a sequence of scalars
IsList(v) == v.t = "[]interface{}"

\* C21: for every fact value f and list operand L, anyof(f, L) and
\* noneof(f, L) return without error and anyof(f, L) = NOT noneof(f, L).
C21_MembershipComplementary ==
    ( /\ opcall.result # <<>>
      /\ opcall.operator \in {"anyof", "noneof"}
      /\ IsList(opcall.value) )
    => LET other == IF opcall.operator = "anyof" THEN "noneof" ELSE "anyof"
           complement == EvaluateOperator(opcall.identifier, opcall.value, other)
       IN /\ opcall.result[1].err = "none"
          /\ complement.err = "none"
          /\ opcall.result[1].ok = ~complement.ok

\* noneof of the string "abc" and a list that holds it has returned false
C21_Witness ==
    /\ opcall.operator = "noneof"
    /\ opcall.identifier = StrV("abc")
    /\ opcall.value = ListV(<< StrV("abc"), IntV(5) >>)
    /\ opcall.result = << Ok(FALSE) >>

\* C22: anyof with a list operand L never fails; with a numeric fact f it
\* is true exactly when some numeric element of L equals f numerically,
\* the other elements being skipped; with a fact that is not numeric it is
\* true exactly when some element of L is the same value as f; on an empty
\* list it is false.
C22_AnyofList ==
    ( /\ opcall.result # <<>>
      /\ opcall.operator = "anyof"
      /\ IsList(opcall.value) )
    => LET f == opcall.identifier
           L == opcall.value.l
       IN /\ opcall.result[1].err = "none"
          /\ IsNumeric(f) =>
                (opcall.result[1].ok <=>
                    \E i \in 1..Len(L) : IsNumeric(L[i]) /\ L[i].n = f.n)
          /\ ~IsNumeric(f) =>
                (opcall.result[1].ok <=> \E i \in 1..Len(L) : L[i] = f)
          /\ L = <<>> => ~opcall.result[1].ok

\* anyof of the float 5.0 and the list ["abc", 5] has returned true
C22_Witness ==
    /\ opcall.operator = "anyof"
    /\ opcall.identifier = FloatV(10)
    /\ opcall.value = ListV(<< StrV("abc"), IntV(5) >>)
    /\ opcall.result = << Ok(TRUE) >>

\* C23: when a conditional without operand (Value missing or empty) is
\* evaluated, the call aborts at that step, whatever the operator and the
\* fact value: with the malformed-conditional fault when the fact has a
\* value, and never with the conditional taken as true or false.
C23_MissingOperandAborts ==
    [][\A t \in Threads :
          (EvaluatesConditional(t) /\ CurrentConditional(t).Value = <<>>)
          => /\ ret'[t].kind = "panic"
             /\ pc'[t] \in {"unlock", "exit"}
             /\ ~Absent(CurrentConditional(t), Data(data[t])) => ret'[t] = Panic("noval")]_vars

\* EvaluateRules on a rule whose conditional has the unknown operator frob
\* and no value at all is over: it aborted over the missing operand
C23_Witness ==
    /\ opcall.operator = "frob" /\ opcall.value = NilV
    /\ pc[Caller] = "exit" /\ op[Caller] = "EvaluateRules"
    /\ ret[Caller] = Panic("noval")


\* the new user of a CreateUser call, or the rewritten user of an UpdateUser
\* call, would share a username or an email with another stored user
WouldBreakUniqueness(t) ==
    \/ /\ ucall[t].op = "CreateUser"
       /\ \E u \in users : \/ u.Username = ucall[t].Username[1]
                           \/ u.Email = ucall[t].Email[1]
    \/ /\ ucall[t].op = "UpdateUser"
       /\ ucall[t].id \in StoredIds
       /\ \E u \in users :
             /\ u.ID # ucall[t].id
             /\ \/ u.Username = Updated(UserAt(ucall[t].id), ucall[t]).Username
                     /\ ucall[t].Username # <<>>
                \/ u.Email = Updated(UserAt(ucall[t].id), ucall[t]).Email
                     /\ ucall[t].Email # <<>>

\* no two stored users share a username or an email (or an id)
UniqueUsers ==
    \A u, v \in users :
        u # v => /\ u.ID # v.ID
                 /\ u.Username # v.Username
                 /\ u.Email # v.Email

\* C24: under any interleaving of CreateUser, UpdateUser and DeleteUser no
\* two stored users have the same username or the same email; and the body
\* of a CreateUser or UpdateUser call that would break this ends with the
\* username-exists or email-exists error and leaves the stored users and
\* nextID as they were.
C24_UniqueUsers ==
    [][/\ UniqueUsers /\ UniqueUsers'
       /\ \A t \in Threads :
             (ucall[t].pc = "body" /\ ucall'[t].pc = "unlock" /\ WouldBreakUniqueness(t))
             => /\ ucall'[t].err \in {ErrUsernameExists, ErrEmailExists}
                /\ users' = users
                /\ nextID' = nextID]_vars

\* two users are stored and an UpdateUser that would give one of them the
\* other's email has been refused
C24_Witness ==
    \E t \in Threads :
        /\ ucall[t].pc = "unlock"
        /\ ucall[t].op = "UpdateUser"
        /\ ucall[t].err = ErrEmailExists
        /\ Cardinality(users) = 2


\* entry i of block evaluates true on the facts
EvaluatesTrue(block, i, facts, opts) ==
    EvaluateRule(block.RuleEntries[i], facts, opts) = Ok(TRUE)

\* C25: when EvaluateRules is about to return (true, id, entry), still
\* holding the mutex, a block is stored under id, entry is one of its
\* entries, that entry evaluates true on the facts supplied and no earlier
\* entry of the block does; and when it is about to return (false, "", nil),
\* no entry of any stored block evaluates true on the facts.
C25_ResultSound ==
    \A t \in Threads :
        (pc[t] = "unlock" /\ op[t] = "EvaluateRules")
        => LET rm == RuleMap[eng[t]]
               facts == Data(data[t])
               opts == << AllowUndefinedVars[eng[t]] >>
           IN /\ ret[t].kind = "match"
                 => /\ ret[t].id \in Keys(rm)
                    /\ \E i \in 1..Len(rm.at[ret[t].id][1].RuleEntries) :
                          /\ rm.at[ret[t].id][1].RuleEntries[i] = ret[t].entry[1]
                          /\ EvaluatesTrue(rm.at[ret[t].id][1], i, facts, opts)
                          /\ \A k \in 1..(i - 1) :
                                ~EvaluatesTrue(rm.at[ret[t].id][1], k, facts, opts)
              /\ ret[t] = NoMatch
                 => \A u \in Keys(rm) : \A i \in 1..Len(rm.at[u][1].RuleEntries) :
                       ~EvaluatesTrue(rm.at[u][1], i, facts, opts)

\* EvaluateRules is about to return the second entry of a block whose first
\* entry does not match the facts
C25_Witness ==
    \E t \in Threads :
        /\ pc[t] = "unlock" /\ op[t] = "EvaluateRules"
        /\ ret[t] = Match("a", BlockM.RuleEntries[2])
        /\ ~EvaluatesTrue(BlockM, 1, Data(data[t]), << AllowUndefinedVars[eng[t]] >>)


\* the list the cursor of thread t is in
CurrentList(t) ==
    IF cursor[t].phase = "any" THEN ruleBlock[t][1].RuleEntries[ei[t]].Any
    ELSE ruleBlock[t][1].RuleEntries[ei[t]].All

\* the result that ends a list: true ends `any`, false ends `all`
Deciding(phase) == Ok(phase = "any")

\* C26: the conditionals of a list are evaluated from left to right, one at
\* a time: a step of the loops evaluates the conditional under the cursor,
\* and only a fault of that conditional aborts the call; a false conditional
\* ends EvaluateAllCondition with false and a true one ends
\* EvaluateAnyCondition with true, the cursor leaving the list without going
\* to a later conditional; any other result moves the cursor to the next
\* conditional of the same list, if there is one.  Hence a call returns the
\* result of the deciding conditional whenever every conditional that would
\* fault comes after it in the list.
C26_ShortCircuit ==
    /\ [](\A t \in Threads :
            (pc[t] = "exit" /\ op[t] = "EvaluateStruct")
            => LET entry == StructEntry(t)
                   facts == Data(data[t])
                   opts == << AllowUndefinedVars[eng[t]] >>
                   Unreached(L, b) ==
                       \E i \in Evaluating(L, b, facts, opts) :
                           \A k \in Faulting(L, facts, opts) : i < k
               IN /\ (entry.Any = <<>> /\ Unreached(entry.All, FALSE))
                     => ret[t] = Bool(FALSE)
                  /\ (entry.All = <<>> /\ Unreached(entry.Any, TRUE))
                     => ret[t] = Bool(TRUE))
    /\ [][\A t \in Threads :
             EvaluatesConditional(t)
             => LET c == cursor[t]
                    r == CondResult(CurrentConditional(t), Data(data[t]),
                                    << AllowUndefinedVars[eng[t]] >>)
                IN /\ (ret'[t].kind = "panic") <=> (r.err # "none")
                   /\ r = Deciding(c.phase)
                      => /\ cursor'[t].phase # c.phase
                         /\ IF c.phase = "any" THEN cursor'[t].any
                            ELSE cursor'[t].phase = "done" /\ ~cursor'[t].all
                   /\ (r.err = "none" /\ r # Deciding(c.phase) /\ c.ci < Len(CurrentList(t)))
                      => cursor'[t] = [c EXCEPT !.ci = c.ci + 1]]_vars

\* EvaluateStruct returned false for an entry whose `all` list has a false
\* conditional followed by one that would fault on the facts
C26_Witness ==
    \E t \in Threads :
        /\ pc[t] = "exit" /\ op[t] = "EvaluateStruct" /\ ret[t] = Bool(FALSE)
        /\ LET L == StructEntry(t).All
               opts == << AllowUndefinedVars[eng[t]] >>
           IN /\ StructEntry(t).Any = <<>>
              /\ Len(L) = 2
              /\ CondResult(L[1], Data(data[t]), opts) = Ok(FALSE)
              /\ CondResult(L[2], Data(data[t]), opts).err # "none"


\* what an engine that returns on the first match decides on one block: the
\* match of the first entry that evaluates true, or the abort of an entry
\* before it, or nothing
RECURSIVE FirstMatchOutcome(_, _, _, _)
FirstMatchOutcome(block, i, facts, opts) ==
    IF i > Len(block.RuleEntries) THEN NoRet
    ELSE LET r == EvaluateRule(block.RuleEntries[i], facts, opts) IN
         IF r.err # "none" THEN Panic(r.err)
         ELSE IF r.ok THEN Match(block.UUID, block.RuleEntries[i])
         ELSE FirstMatchOutcome(block, i + 1, facts, opts)

\* C27: whatever FirstMatch the engine was created with, the result of
\* EvaluateRules is the one of an engine that returns on the first match,
\* for the order in which the call went through the blocks: every block
\* before the last one visited decided nothing, and the result is what the
\* last one decides, or no match after all blocks were visited; the call
\* ends as soon as it has a match and returns that one entry.
C27_FirstMatchIgnored ==
    /\ [](\A t \in Threads :
            (pc[t] = "unlock" /\ op[t] = "EvaluateRules")
            => LET rm == RuleMap[eng[t]]
                   facts == Data(data[t])
                   opts == << AllowUndefinedVars[eng[t]] >>
                   Decision(u) == FirstMatchOutcome(rm.at[u][1], 1, facts, opts)
               IN IF visited[t] = {} THEN Keys(rm) = {} /\ ret[t] = NoMatch
                  ELSE LET last == ruleBlock[t][1].UUID IN
                       /\ \A u \in visited[t] \ {last} : Decision(u) = NoRet
                       /\ IF Decision(last) = NoRet
                          THEN visited[t] = Keys(rm) /\ ret[t] = NoMatch
                          ELSE ret[t] = Decision(last))
    /\ [][\A t \in Threads :
             (ret'[t].kind = "match" /\ ret[t].kind # "match")
             => pc'[t] = "unlock" /\ Len(ret'[t].entry) = 1]_vars

\* an engine created with FirstMatch = false is about to return the first
\* entry of a block whose second entry matches the facts too
C27_Witness ==
    \E t \in Threads :
        /\ pc[t] = "unlock" /\ op[t] = "EvaluateRules"
        /\ ~FirstMatch[eng[t]]
        /\ ret[t] = Match("a", BlockM.RuleEntries[1])
        /\ EvaluatesTrue(BlockM, 2, Data(data[t]), << AllowUndefinedVars[eng[t]] >>)


\* the same block, switched on
Enabled(block) == [block EXCEPT !.State = TRUE]

\* C28: EvaluateRules treats a stored block whose State is false exactly
\* like the same block with State true: when the call is about to return,
\* its result is what the last block it visited decides as if it were
\* switched on (its first matching entry, or the abort of an entry before
\* it), or no match when that block decides nothing, and then every stored
\* block, switched off or not, has been visited.
C28_StateNotEnforced ==
    \A t \in Threads :
        (pc[t] = "unlock" /\ op[t] = "EvaluateRules" /\ visited[t] # {})
        => LET decision == FirstMatchOutcome(Enabled(ruleBlock[t][1]), 1, Data(data[t]),
                                             << AllowUndefinedVars[eng[t]] >>)
           IN IF decision = NoRet
              THEN ret[t] = NoMatch /\ visited[t] = Keys(RuleMap[eng[t]])
              ELSE ret[t] = decision

\* EvaluateRules is about to return the entry of a stored block whose State
\* is false
C28_Witness ==
    \E t \in Threads :
        /\ pc[t] = "unlock" /\ op[t] = "EvaluateRules"
        /\ ret[t] = Match(BlockD.UUID, BlockD.RuleEntries[1])
        /\ RuleMap[eng[t]].at[ret[t].id] = << BlockD >>
        /\ ~RuleMap[eng[t]].at[ret[t].id][1].State


\* C29: EvaluateRule goes from the `any` list to the `all` list whatever the
\* `any` list gave: the step that ends a non-empty `any` list without a
\* fault puts the cursor on the first conditional of a non-empty `all` list,
\* also when `any` is false; a fault in the `any` list ends the call there.
\* So a call whose `any` list is false without a fault and whose `all` list
\* comes to a fault aborts with that fault, and a call whose `any` list
\* comes to a fault aborts with the fault of the `any` list.
C29_NoShortCircuitBetweenGroups ==
    /\ [](\A t \in Threads :
            (pc[t] = "exit" /\ op[t] = "EvaluateStruct")
            => LET entry == StructEntry(t)
                   facts == Data(data[t])
                   opts == << AllowUndefinedVars[eng[t]] >>
                   anyres == ExistsInOrder(entry.Any, TRUE, facts, opts)
                   allres == ExistsInOrder(entry.All, FALSE, facts, opts)
               IN /\ (entry.Any # <<>> /\ anyres.err # "none")
                     => ret[t] = Panic(anyres.err)
                  /\ (entry.Any # <<>> /\ anyres = Ok(FALSE) /\ allres.err # "none")
                     => ret[t] = Panic(allres.err))
    /\ [][\A t \in Threads :
             (EvaluatesConditional(t) /\ cursor[t].phase = "any")
             => LET entry == ruleBlock[t][1].RuleEntries[ei[t]] IN
                /\ ret'[t].kind = "panic"
                   => pc'[t] \in {"exit", "unlock"} /\ cursor'[t] = NoCursor
                /\ (ret'[t].kind # "panic" /\ cursor'[t].phase # "any" /\ entry.All # <<>>)
                   => /\ cursor'[t].phase = "all" /\ cursor'[t].ci = 1
                      /\ pc'[t] = "conds"]_vars

\* EvaluateStruct aborted on a fault of the `all` list of an entry whose
\* `any` list had already evaluated false
C29_Witness ==
    \E t \in Threads :
        /\ pc[t] = "exit" /\ op[t] = "EvaluateStruct" /\ ret[t].kind = "panic"
        /\ LET entry == StructEntry(t)
               facts == Data(data[t])
               opts == << AllowUndefinedVars[eng[t]] >>
           IN /\ entry.Any # <<>>
              /\ ExistsInOrder(entry.Any, TRUE, facts, opts) = Ok(FALSE)
              /\ ExistsInOrder(entry.All, FALSE, facts, opts).err # "none"


\* the fact of conditional c is in the bag with a value that is not nil
Defined(c, facts) == c.Fact \in DOMAIN facts /\ facts[c.Fact] # NilV

\* C30: a step of the loops on a conditional whose fact is in the bag with
\* the value false, 0, "" or any other value that is not nil evaluates the
\* conditional on that very value; when the fact is in the bag with a nil
\* value, or not in the bag, the step aborts the call with the
\* undefined-fact fault if the AllowUndefinedVars in force is false and
\* evaluates the conditional on false if it is true.
C30_NilFactIsUndefined ==
    [][\A t \in Threads :
          EvaluatesConditional(t)
          => LET c == CurrentConditional(t)
                 facts == Data(data[t])
                 r == EvaluateConditional(c, IF Defined(c, facts) THEN facts[c.Fact]
                                             ELSE BoolV(FALSE))
             IN IF ~Defined(c, facts) /\ options # <<>> /\ ~options[1]
                THEN ret'[t] = Panic("undef")
                ELSE IF r.err # "none" THEN ret'[t] = Panic(r.err)
                ELSE /\ ret'[t].kind # "panic"
                     /\ cursor'[t] = AdvanceCursor(ruleBlock[t][1].RuleEntries[ei[t]],
                                                   cursor[t], r.ok)]_vars

\* on an engine that allows undefined facts, a call on a bag that holds the
\* fact with a nil value returned true: the substituted false was found in
\* the operand list [false]
C30_Witness ==
    \E t \in Threads :
        /\ pc[t] = "exit" /\ op[t] = "EvaluateStruct" /\ data[t] = "X"
        /\ "x" \in DOMAIN Data("X") /\ Data("X").x = NilV
        /\ AllowUndefinedVars[eng[t]]
        /\ StructEntry(t).All = << AstConditional("x", "anyof", << BoolV(FALSE) >>) >>
        /\ ret[t] = Bool(TRUE)

=============================================================================
